---- MODULE Spec2Model ----
(***************************************************************************)
(* Reservation data flow of the studio dashboard: the reservations table   *)
(* of the persistence layer, the data-access context (DataProvider) that   *)
(* mirrors it in memory, and the projections ViewReservations and          *)
(* ReservationAnalytics render from the in-memory list.                    *)
(* The emails tables with their row-level security, the inbound-email     *)
(* handler, EmailViewer and the unread badge of Navigation follow.         *)
(*                                                                         *)
(* Every context operation is asynchronous: the call sends one request,    *)
(* the store processes it, and the continuation after the await handles    *)
(* the response.  Requests of overlapping calls may reach the store, and   *)
(* their responses may return, in any order.                               *)
(*                                                                         *)
(* Text is a sequence of one-character strings, an amount is an integer    *)
(* number of cents, a date 'YYYY-MM-DD' is the tuple <<y, m, d>>.           *)
(***************************************************************************)
EXTENDS Integers, Sequences, FiniteSets, TLC

VARIABLES
    db,            \* rows of the reservations table
    clock,         \* store side: number of rows inserted so far (ids, created_at)
    reservations,  \* useState<Reservation[]> of DataProvider
    loading,       \* useState(true) of DataProvider
    pending,       \* calls whose promise has not settled yet
    nextCall,      \* number of the next call
    requests,      \* history: requests the store received, per call
    deleted,       \* history: ids whose deleteReservation resolved
    lastDone,      \* history: the call that settled last, and how
    searchTerm,    \* useState('') of ViewReservations
    dateFilter,    \* useState({ start, end }) of ViewReservations
    rendered,      \* rows of the table ViewReservations rendered last
    notice,        \* last run of the outbound reservation-notice relay
    otherList,     \* useState<Reservation[]> of a second open session
    writes,        \* history: updates in the order the store applied them
    selectedPeriod,    \* useState<TimePeriod>('today') of ReservationAnalytics
    wall,              \* the browser's clock and time zone
    analytics,         \* what ReservationAnalytics computed last
    emails,            \* rows of the emails table
    email_attachments, \* rows of the email_attachments table
    response,          \* last run of the inbound-email handler
    editingReservation, \* useState<string | null>(null) of ViewReservations
    editFormData,       \* useState({ ... }) of ViewReservations: the edit form
    alerts,             \* number of alert() dialogs ViewReservations has shown
    user,               \* the staff record of the logged-in user (useAuth)
    unreadCount,        \* useState(0) of Navigation: the unread badge
    inbox,              \* useState<Email[]>([]) of EmailViewer
    selectedEmail,      \* useState<Email | null>(null) of EmailViewer
    attachments,        \* useState<EmailAttachment[]>([]) of EmailViewer
    events              \* change events of table emails not yet delivered

dataVars == <<db, clock, reservations, loading, pending, nextCall, requests,
              deleted, lastDone>>

viewVars == <<searchTerm, dateFilter, rendered, notice>>

sessionVars == <<otherList, writes>>

analyticsVars == <<selectedPeriod, wall, analytics>>

inboundVars == <<emails, email_attachments, response>>

editVars == <<editingReservation, editFormData, alerts>>

mailVars == <<user, unreadCount, inbox, selectedEmail, attachments, events>>

otherVars == <<selectedPeriod, wall, analytics, emails, email_attachments,
               response, editingReservation, editFormData, alerts, user,
               unreadCount, inbox, selectedEmail, attachments, events>>

vars == <<db, clock, reservations, loading, pending, nextCall, requests,
          deleted, lastDone, searchTerm, dateFilter, rendered, notice,
          otherList, writes, selectedPeriod, wall, analytics, emails,
          email_attachments, response, editingReservation, editFormData,
          alerts, user, unreadCount, inbox, selectedEmail, attachments,
          events>>

----------------------------------------------------------------------------
(* Bounds *)

MaxCalls == 2
MaxTermLen == 2
MaxRows == 2
MaxRequests == 2
MaxAttachments == 2

----------------------------------------------------------------------------
(* Values *)

Undefined == "undefined"
Null == "null"

\* Fields that may carry the JavaScript value undefined in a call argument.
OptionalFields == {"artistId"}

IsUndefined(f, v) == f \in OptionalFields /\ v = Undefined

Fields ==
    {"id", "reservationNumber", "firstName", "lastName", "phone",
     "appointmentDate", "appointmentTime", "totalPrice", "depositPaid",
     "isPaid", "depositPaidStatus", "restPaidStatus", "designImages",
     "notes", "artistId", "createdAt"}

\* What the new-reservation form may hand to addReservation.
Payloads ==
    { [reservationNumber |-> 1042,
       firstName |-> <<"A", "n">>, lastName |-> <<"B", "o">>,
       phone |-> <<"4", "9", "1">>,
       appointmentDate |-> <<2025, 10, 2>>, appointmentTime |-> <<"1", "0">>,
       totalPrice |-> 25000, depositPaid |-> 5000,
       isPaid |-> FALSE, depositPaidStatus |-> dps, restPaidStatus |-> FALSE,
       designImages |-> <<>>, notes |-> <<>>, artistId |-> a]
      : dps \in BOOLEAN, a \in {Undefined} }

\* The table as the first fetch finds it: one row of an earlier session.
SeedRow ==
    [id |-> 1, reservationNumber |-> 1041,
     firstName |-> <<"C", "y">>, lastName |-> <<"D", "e">>,
     phone |-> <<"4", "4", "2">>,
     appointmentDate |-> <<2025, 10, 1>>, appointmentTime |-> <<"0", "9">>,
     totalPrice |-> 12000, depositPaid |-> 2000,
     isPaid |-> FALSE, depositPaidStatus |-> TRUE, restPaidStatus |-> FALSE,
     designImages |-> <<>>, notes |-> <<>>, artistId |-> "s1",
     createdAt |-> 1]

NoRow == [id |-> 0]
NoArg == [none |-> TRUE]

Ids(rows) == {r.id : r \in rows}
Range(s) == {s[i] : i \in 1..Len(s)}
ListIds(list) == {list[i].id : i \in 1..Len(list)}

----------------------------------------------------------------------------
(* Persistence layer: table reservations *)

\* insert([reservation]).select().single(): the body is JSON, so a key
\* whose value is undefined is not sent and the column takes its default;
\* id and created_at are assigned by the store.
DbRow(reservation, id, now) ==
    [f \in Fields |->
        IF f = "id" THEN id
        ELSE IF f = "createdAt" THEN now
        ELSE IF f \in DOMAIN reservation /\ ~IsUndefined(f, reservation[f])
             THEN reservation[f]
        ELSE Null]

\* Variant: an insert whose payload equals a stored row's is dropped.
DbInsert_Dedup(rows, row) ==
    IF \E q \in rows :
           \A f \in DOMAIN row \ {"id", "createdAt"} : q[f] = row[f]
    THEN rows ELSE rows \cup {row}

DbInsert(rows, row) == rows \cup {row}

\* update(updates).eq('id', id): only the keys of the JSON body are written.
DbPatch(row, updates) ==
    [f \in DOMAIN row |->
        IF f \in DOMAIN updates /\ ~IsUndefined(f, updates[f])
        THEN updates[f] ELSE row[f]]

\* Variant: the update is acknowledged but the row keeps its values.
DbUpdate_Skip(rows, id, updates) == rows

DbUpdate(rows, id, updates) ==
    {IF r.id = id THEN DbPatch(r, updates) ELSE r : r \in rows}

\* Variant: the delete leaves the row in the table.
DbDelete_Keep(rows, id) == rows

\* delete().eq('id', id)
DbDelete(rows, id) == {r \in rows : r.id # id}

\* select('*').order('created_at', { ascending: false })
RECURSIVE DbSelectOrdered(_)
DbSelectOrdered(rows) ==
    IF rows = {} THEN <<>>
    ELSE LET newest == CHOOSE r \in rows :
                           \A q \in rows : q.createdAt <= r.createdAt
         IN  <<newest>> \o DbSelectOrdered(rows \ {newest})

----------------------------------------------------------------------------
(* Data-access context: state updaters *)

\* Variant: the spread order is swapped, { ...updates, ...res }.
Merge_Swapped(res, updates) ==
    [f \in DOMAIN res \cup DOMAIN updates |->
        IF f \in DOMAIN res THEN res[f] ELSE updates[f]]

\* { ...res, ...updates }
Merge(res, updates) ==
    [f \in DOMAIN res \cup DOMAIN updates |->
        IF f \in DOMAIN updates THEN updates[f] ELSE res[f]]

\* Variant: the new row is appended.
PrependRow_Append(prev, data) == prev \o <<data>>

\* setReservations(prev => [data, ...prev])
PrependRow(prev, data) == <<data>> \o prev

\* setReservations(prev => prev.map(res => res.id === id ? {...res, ...updates} : res))
MapMerge(prev, id, updates) ==
    [i \in 1..Len(prev) |->
        IF prev[i].id = id THEN Merge(prev[i], updates) ELSE prev[i]]

\* Variant: the first entry with the id is removed by position, and the
\* first entry of the list when there is none.
FilterOut_Splice(prev, id) ==
    IF prev = <<>> THEN prev
    ELSE LET k == IF id \in ListIds(prev)
                  THEN CHOOSE i \in 1..Len(prev) :
                           /\ prev[i].id = id
                           /\ \A j \in 1..(i - 1) : prev[j].id # id
                  ELSE 1
         IN  SubSeq(prev, 1, k - 1) \o SubSeq(prev, k + 1, Len(prev))

\* setReservations(prev => prev.filter(res => res.id !== id))
FilterOut(prev, id) == SelectSeq(prev, LAMBDA res : res.id # id)

----------------------------------------------------------------------------
(* Text and numbers as JavaScript renders them *)

Chars == {"a", "A", "n", "4"}

Digit(d) == <<"0", "1", "2", "3", "4", "5", "6", "7", "8", "9">>[d + 1]

\* Number.prototype.toString() of a non-negative integer
RECURSIVE NumToString(_)
NumToString(n) ==
    IF n < 10 THEN <<Digit(n)>>
    ELSE NumToString(n \div 10) \o <<Digit(n % 10)>>

\* String.prototype.toLowerCase()
LowerChar(c) == IF c = "A" THEN "a" ELSE c
ToLowerCase(s) == [i \in 1..Len(s) |-> LowerChar(s[i])]

\* String.prototype.includes()
Includes(s, t) ==
    \E i \in 0..(Len(s) - Len(t)) : SubSeq(s, i + 1, i + Len(t)) = t

Abs(n) == IF n < 0 THEN -n ELSE n

\* Number.prototype.toFixed(2) of an amount held in cents
ToFixed2(cents) ==
    (IF cents < 0 THEN <<"-">> ELSE <<>>)
        \o NumToString(Abs(cents) \div 100)
        \o <<".", Digit((Abs(cents) % 100) \div 10), Digit(Abs(cents) % 10)>>

\* new Date('YYYY-MM-DD'): UTC midnight of that day; time is getTime() in
\* whole days (getTime() / 86400000, exact for a date-only string).  The
\* empty string of a cleared date input gives an Invalid Date.
IsLeap(y) == (y % 4 = 0 /\ y % 100 # 0) \/ y % 400 = 0

LeapDaysBefore(y) == ((y - 1) \div 4) - ((y - 1) \div 100) + ((y - 1) \div 400)

DaysBeforeMonth(y, m) ==
    <<0, 31, 59, 90, 120, 151, 181, 212, 243, 273, 304, 334>>[m]
        + (IF m > 2 /\ IsLeap(y) THEN 1 ELSE 0)

NewDate(s) ==
    IF s = <<>> THEN [valid |-> FALSE, time |-> 0]
    ELSE [valid |-> TRUE,
          time |-> 365 * (s[1] - 1970)
                   + (LeapDaysBefore(s[1]) - LeapDaysBefore(1970))
                   + DaysBeforeMonth(s[1], s[2]) + (s[3] - 1)]

\* a >= b and a <= b on Date objects: false when either is invalid (NaN)
DateGE(a, b) == a.valid /\ b.valid /\ a.time >= b.time
DateLE(a, b) == a.valid /\ b.valid /\ a.time <= b.time

----------------------------------------------------------------------------
(* ViewReservations: filter and table cells *)

matchesSearch(reservation, term) ==
    \/ Includes(NumToString(reservation.reservationNumber), term)
    \/ Includes(ToLowerCase(reservation.firstName), ToLowerCase(term))
    \/ Includes(ToLowerCase(reservation.lastName), ToLowerCase(term))
    \/ Includes(reservation.phone, term)

\* Variant: the end bound is exclusive.
matchesDate_EndExclusive(reservation, filter) ==
    LET reservationDate == NewDate(reservation.appointmentDate)
        startDate == NewDate(filter.start)
        endDate == NewDate(filter.end)
    IN  /\ DateGE(reservationDate, startDate)
        /\ DateLE(reservationDate, endDate)
        /\ reservationDate.time # endDate.time

matchesDate(reservation, filter) ==
    LET reservationDate == NewDate(reservation.appointmentDate)
        startDate == NewDate(filter.start)
        endDate == NewDate(filter.end)
    IN  DateGE(reservationDate, startDate) /\ DateLE(reservationDate, endDate)

filteredReservations(list, term, filter) ==
    SelectSeq(list, LAMBDA reservation :
        matchesSearch(reservation, term) /\ matchesDate(reservation, filter))

\* Variant: the deposit is not subtracted.
Remaining_NoDeposit(reservation) == reservation.totalPrice

\* (reservation.totalPrice - reservation.depositPaid) of the price cell
Remaining(reservation) == reservation.totalPrice - reservation.depositPaid

\* The price cell of a row that is not being edited
PriceCell(reservation) ==
    [id |-> reservation.id,
     total |-> ToFixed2(reservation.totalPrice),
     deposit |-> ToFixed2(reservation.depositPaid),
     remaining |-> ToFixed2(Remaining(reservation))]

Render(list, term, filter) ==
    LET shown == filteredReservations(list, term, filter)
    IN  [i \in 1..Len(shown) |-> PriceCell(shown[i])]

----------------------------------------------------------------------------
(* ReservationAnalytics: payment status label *)

\* Variant: the rest flag alone decides 'Fully Paid'.
StatusLabel_RestOnly(reservation) ==
    IF reservation.restPaidStatus THEN "Fully Paid"
    ELSE IF reservation.depositPaidStatus THEN "Deposit Paid"
    ELSE "Pending"

StatusLabel(reservation) ==
    IF reservation.depositPaidStatus /\ reservation.restPaidStatus
    THEN "Fully Paid"
    ELSE IF reservation.depositPaidStatus THEN "Deposit Paid"
    ELSE "Pending"

----------------------------------------------------------------------------
(* ReservationAnalytics: periods and aggregates *)

MsPerDay == 24 * 60 * 60 * 1000

MsPerHour == 60 * 60 * 1000

\* getTime() of a Date: whole days since the epoch and the milliseconds of
\* that day.  Shift adds a number of 24-hour spans and of milliseconds.
Shift(t, spans, ms) ==
    [day |-> t.day + spans + ((t.ms + ms) \div MsPerDay),
     ms |-> (t.ms + ms) % MsPerDay]

\* a <= b and a < b on Date objects
TimeLE(a, b) == a.day < b.day \/ (a.day = b.day /\ a.ms <= b.ms)
TimeLT(a, b) == a.day < b.day \/ (a.day = b.day /\ a.ms < b.ms)

\* Time zones of the browser: one without daylight saving time and one
\* whose clocks went forward on 2025-03-30 and back on 2025-10-26.
Zones == {"UTC", "Europe/Berlin"}

SpringForward == NewDate(<<2025, 3, 30>>).time
FallBack == NewDate(<<2025, 10, 26>>).time

\* Milliseconds east of UTC at local midnight of a calendar day
OffsetAtMidnight(zone, day) ==
    IF zone = "UTC" THEN 0
    ELSE IF day > SpringForward /\ day <= FallBack THEN 2 * MsPerHour
    ELSE MsPerHour

\* new Date(year, month, date): local midnight of a calendar day
LocalMidnight(zone, day) ==
    Shift([day |-> day, ms |-> 0], 0, -OffsetAtMidnight(zone, day))

Periods == {"today", "yesterday", "week", "month"}

getDateRange(period, w) ==
    LET today == LocalMidnight(w.zone, w.today)
        yesterday == Shift(today, -1, 0)
        weekAgo == Shift(today, -7, 0)
        monthAgo == Shift(today, -30, 0)
    IN  CASE period = "yesterday" ->
               [start |-> yesterday, end |-> Shift(yesterday, 1, -1)]
          [] period = "week" ->
               [start |-> weekAgo, end |-> Shift(today, 1, -1)]
          [] period = "month" ->
               [start |-> monthAgo, end |-> Shift(today, 1, -1)]
          [] OTHER ->
               [start |-> today, end |-> Shift(today, 1, -1)]

\* createdDate >= range.start && createdDate <= range.end
InRange(reservation, range) ==
    /\ TimeLE(range.start, reservation.createdAt)
    /\ TimeLE(reservation.createdAt, range.end)

\* sort((a, b) => new Date(b.createdAt) - new Date(a.createdAt)): newest
\* first, entries of equal time in their order in the list
RECURSIVE SortByCreatedDesc(_)
SortByCreatedDesc(list) ==
    IF list = <<>> THEN <<>>
    ELSE LET i == CHOOSE i \in 1..Len(list) :
                      /\ \A j \in 1..Len(list) :
                            TimeLE(list[j].createdAt, list[i].createdAt)
                      /\ \A j \in 1..(i - 1) :
                            list[j].createdAt # list[i].createdAt
         IN  <<list[i]>>
                 \o SortByCreatedDesc(SubSeq(list, 1, i - 1)
                                         \o SubSeq(list, i + 1, Len(list)))

\* filteredReservations of ReservationAnalytics
filteredByPeriod(list, period, w) ==
    SortByCreatedDesc(
        SelectSeq(list, LAMBDA r : InRange(r, getDateRange(period, w))))

\* reduce((sum, res) => sum + res[f], 0)
RECURSIVE SumOf(_, _)
SumOf(list, f) ==
    IF list = <<>> THEN 0 ELSE list[1][f] + SumOf(Tail(list), f)

\* Variant: the division is not guarded.
averageTicket_Unguarded(totalRevenue, length) ==
    [num |-> totalRevenue, den |-> length]

\* length > 0 ? totalRevenue / length : 0, as the fraction num / den
averageTicket(totalRevenue, length) ==
    IF length > 0 THEN [num |-> totalRevenue, den |-> length]
    ELSE [num |-> 0, den |-> 1]

\* Variant: the legacy flag isPaid decides.
paidReservations_Legacy(list) == SelectSeq(list, LAMBDA res : res.isPaid)

paidReservations(list) ==
    SelectSeq(list, LAMBDA res : res.depositPaidStatus /\ res.restPaidStatus)

Analytics(list, period, w) ==
    LET shown == filteredByPeriod(list, period, w)
        totalRevenue == SumOf(shown, "totalPrice")
    IN  [period |-> period,
         shown |-> shown,
         totalReservations |-> Len(shown),
         totalRevenue |-> totalRevenue,
         totalDeposits |-> SumOf(shown, "depositPaid"),
         averageTicket |-> averageTicket(totalRevenue, Len(shown)),
         fullyPaidCount |-> Len(paidReservations(shown)),
         pendingCount |-> Len(shown) - Len(paidReservations(shown))]

----------------------------------------------------------------------------
(* Outbound reservation-notice relay *)

NoNotice ==
    [status |-> 0, success |-> FALSE, calls |-> 0,
     total |-> <<>>, deposit |-> <<>>, remaining |-> <<>>,
     method |-> "none", webhook |-> "none",
     env |-> [phone |-> FALSE, target |-> FALSE, url |-> FALSE]]

\* const remainingAmount = reservation.totalPrice - reservation.depositPaid
remainingAmount(reservation) ==
    reservation.totalPrice - reservation.depositPaid

\* Variant: the status of the answer is not examined.
ResponseOk_Always(webhook) == TRUE

\* response.ok
ResponseOk(webhook) == webhook \in {"ok", "badjson"}

\* await response.json() returns: the WhatsApp service answers in JSON, with
\* an error status too.
JsonBody(webhook) == webhook \in {"ok", "notok"}

\* The handler of serve(): env says which variables are configured, webhook
\* what the fetch of the WhatsApp service does: it answers 2xx with a JSON
\* body ("ok"), another status ("notok"), 2xx with a body that is not JSON
\* ("badjson"), or the fetch rejects ("throw").
Relay(method, reservation, env, webhook) ==
    LET request == [NoNotice EXCEPT !.method = method, !.env = env]
    IN  IF method = "OPTIONS"
        THEN [request EXCEPT !.status = 200]
        ELSE IF ~env.phone \/ ~env.target
        THEN [request EXCEPT !.status = 500]
        ELSE LET message ==
                     [request EXCEPT
                        !.total = ToFixed2(reservation.totalPrice),
                        !.deposit = ToFixed2(reservation.depositPaid),
                        !.remaining = ToFixed2(remainingAmount(reservation))]
                 sent == [message EXCEPT !.calls = 1, !.webhook = webhook]
             IN  IF ~env.url THEN [message EXCEPT !.status = 500]
                 ELSE IF webhook = "throw" THEN [sent EXCEPT !.status = 500]
                 ELSE IF ~ResponseOk(webhook)
                 THEN [sent EXCEPT !.status = 500]
                 ELSE IF ~JsonBody(webhook)
                 THEN [sent EXCEPT !.status = 500]
                 ELSE [sent EXCEPT !.status = 200, !.success = TRUE]

----------------------------------------------------------------------------
(* What a session learns of a write it did not make *)

\* Variant: the provider listens to changes of the table and reloads.
Broadcast_Live(list, rows) == DbSelectOrdered(rows)

\* useEffect of DataProvider only runs initializeData(): there is no
\* channel on the reservations table, so a write reaches no other list.
Broadcast(list, rows) == list

----------------------------------------------------------------------------
(* Inbound-email handler and the tables emails, email_attachments *)

\* A key the payload does not have reads as undefined.
Absent == <<Undefined>>

\* JavaScript truthiness of an optional string
Truthy(v) == v # Absent /\ v # <<>>

\* a || b
OrElse(a, b) == IF Truthy(a) THEN a ELSE b

\* String(v) of an optional string inside a concatenation
ToText(v) ==
    IF v = Absent THEN <<"u", "n", "d", "e", "f", "i", "n", "e", "d">>
    ELSE v

\* Variant: the time is taken in seconds.
FallbackId_Seconds(sender, now) ==
    ToText(sender) \o <<"-">> \o NumToString(now \div 1000)

\* emailData.sender + "-" + Date.now()
FallbackId(sender, now) == ToText(sender) \o <<"-">> \o NumToString(now)

\* const messageId = emailData["Message-Id"] || emailData.sender + "-" + Date.now()
MessageIdOf(emailData, now) ==
    OrElse(emailData.MessageId, FallbackId(emailData.sender, now))

UnknownSender == <<"unknown@sender.com">>
NoSubject == <<"(No Subject)">>

\* The row handed to from("emails").insert; id is assigned by the store.
EmailRow(id, emailData, now) ==
    LET fromAddress == OrElse(emailData.sender,
                              OrElse(emailData.from, UnknownSender))
    IN  [id |-> id,
         message_id |-> MessageIdOf(emailData, now),
         from_address |-> fromAddress,
         from_name |-> OrElse(emailData.from, fromAddress),
         subject |-> OrElse(emailData.subject, NoSubject),
         is_read |-> FALSE,
         is_archived |-> FALSE,
         direction |-> "inbound"]

\* Variant: message_id carries no UNIQUE constraint.
EmailInsertError_NoUnique(rows, row, outcome) == outcome = "error"

\* message_id text UNIQUE NOT NULL: the insert fails when the store fails
\* or a row with the same message_id exists.
EmailInsertError(rows, row, outcome) ==
    outcome = "error" \/ \E q \in rows : q.message_id = row.message_id

\* Variant: the row is written although the insert reports an error.
EmailsAfterInsert_Partial(rows, row, error) == rows \cup {row}

EmailsAfterInsert(rows, row, error) == IF error THEN rows ELSE rows \cup {row}

\* The row handed to from("email_attachments").insert
AttachmentRow(id, emailId, attachment) ==
    [id |-> id,
     email_id |-> emailId,
     filename |-> OrElse(attachment.filename, <<"unknown">>),
     size_bytes |-> attachment.size]

\* Variant: the loop ends at the first attachment that fails.
AfterAttachment_Break(outcome) == outcome = "ok"

\* try { insert; if (attachmentError) console.error } catch { console.error }
\* inside the for loop: the loop goes on whatever the insert did.
AfterAttachment(outcome) == TRUE

\* The attachments the loop gets to
Attempted(outcomes) ==
    {i \in 1..Len(outcomes) :
        \A j \in 1..(i - 1) : AfterAttachment(outcomes[j])}

\* A form body holds strings only, so it cannot carry the attachments
\* array; a payload without attachments and one with an empty array are
\* both held as the empty list, the handler treats them alike.
FormData(payload) == [payload EXCEPT !.attachments = <<>>]

NoResponse ==
    [n |-> 0, method |-> "none", status |-> 0, success |-> FALSE,
     emailId |-> 0, error |-> "none", messageId |-> Absent,
     header |-> Absent, sender |-> Absent, now |-> 0,
     outcomes |-> <<>>, attempted |-> {}]

\* The handler of Deno.serve.  env says which variables are set, parses
\* whether the body can be read as contentType says, insert what the store
\* does with the email row, outcomes what it does with each attachment row.
Inbound(n, method, env, contentType, parses, body, now, insert, outcomes) ==
    LET failed(error) ==
            [rows |-> emails, attachments |-> email_attachments,
             response |-> [NoResponse EXCEPT !.n = n, !.method = method,
                                             !.status = 500, !.error = error]]
    IN  IF method = "OPTIONS"
        THEN [rows |-> emails, attachments |-> email_attachments,
              response |-> [NoResponse EXCEPT !.n = n, !.method = method,
                                              !.status = 200]]
        ELSE IF ~env.url \/ ~env.key THEN failed("configuration")
        ELSE IF contentType \notin {"json", "form"}
        THEN failed("content type")
        ELSE IF ~parses THEN failed("body")
        ELSE LET emailData == IF contentType = "json" THEN body
                              ELSE FormData(body)
                 row == EmailRow(n, emailData, now)
                 emailError == EmailInsertError(emails, row, insert)
                 list == emailData.attachments
                 tried == Attempted(SubSeq(outcomes, 1, Len(list)))
                 seen == [NoResponse EXCEPT
                            !.n = n, !.method = method,
                            !.messageId = row.message_id,
                            !.header = emailData.MessageId,
                            !.sender = emailData.sender, !.now = now]
             IN  IF emailError
                 THEN [rows |-> EmailsAfterInsert(emails, row, TRUE),
                       attachments |-> email_attachments,
                       response |-> [seen EXCEPT !.status = 500,
                                                 !.error = "insert"]]
                 ELSE [rows |-> EmailsAfterInsert(emails, row, FALSE),
                       attachments |->
                           email_attachments \cup
                               {AttachmentRow(<<n, i>>, row.id, list[i]) :
                                   i \in {j \in tried : outcomes[j] = "ok"}},
                       response |-> [seen EXCEPT
                                       !.status = 200, !.success = TRUE,
                                       !.emailId = row.id,
                                       !.outcomes =
                                           SubSeq(outcomes, 1, Len(list)),
                                       !.attempted = tried]]

----------------------------------------------------------------------------
(* Calls *)

Call(kind, id, arg) ==
    [cid |-> nextCall, kind |-> kind, id |-> id, arg |-> arg,
     phase |-> "sent", error |-> FALSE, row |-> NoRow, rows |-> <<>>,
     count |-> 0, born |-> deleted, session |-> "this"]

Send(c) ==
    /\ nextCall <= MaxCalls
    /\ pending' = pending \cup {c}
    /\ nextCall' = nextCall + 1
    /\ requests' = [requests EXCEPT ![c.cid] = 0]
    /\ UNCHANGED <<db, clock, reservations, loading, deleted, lastDone>>
    /\ UNCHANGED <<viewVars, sessionVars, otherVars>>

Settle(c, outcome) ==
    lastDone' = [cid |-> c.cid, kind |-> c.kind, id |-> c.id,
                 outcome |-> outcome, born |-> c.born, session |-> c.session]

\* refreshReservations -> fetchReservations
refreshReservations == Send(Call("refresh", 0, NoArg))

\* addReservation, up to the await
addReservation(reservation) == Send(Call("add", 0, reservation))

\* updateReservation, up to the await
updateReservation(id, updates) ==
    /\ id \in ListIds(reservations)
    /\ Send(Call("update", id, updates))

\* deleteReservation, up to the await
deleteReservation(id) ==
    /\ id \in ListIds(reservations)
    /\ Send(Call("delete", id, NoArg))

\* new Date().toISOString().split('T')[0] when ViewReservations mounts
Today == <<2025, 10, 2>>

\* The initial value of editFormData, and what handleCancelEdit resets it to
EmptyForm ==
    [firstName |-> <<>>, lastName |-> <<>>, phone |-> <<>>,
     appointmentDate |-> <<>>, appointmentTime |-> <<>>, totalPrice |-> <<>>,
     depositPaid |-> <<>>, notes |-> <<>>, artistId |-> ""]

\* null where an id is expected
NoId == 0

\* null where an email is expected
NoEmail == [id |-> NoId]

\* No row is being edited.
EditIdle ==
    /\ editingReservation = NoId
    /\ editFormData = EmptyForm
    /\ alerts = 0

\* useAuth() before anybody has logged in
LoggedOut == [role |-> "none", permissions |-> {}]

\* Nobody is logged in: Navigation and EmailViewer are not rendered.
MailIdle ==
    /\ user = LoggedOut
    /\ unreadCount = 0
    /\ inbox = <<>>
    /\ selectedEmail = NoEmail
    /\ attachments = <<>>
    /\ events = 0

\* Analytics not opened, no inbound email yet.

OtherIdle ==
    /\ selectedPeriod = "today"
    /\ wall = [zone |-> "UTC", today |-> NewDate(Today).time]
    /\ analytics = Analytics(<<>>, "today", wall)
    /\ emails = {}
    /\ email_attachments = {}
    /\ response = NoResponse
    /\ EditIdle
    /\ MailIdle

NotDone ==
    [cid |-> -1, kind |-> "none", id |-> 0, outcome |-> "none", born |-> {},
     session |-> "none"]

Init ==
    /\ db = {SeedRow}
    /\ clock = 1
    /\ reservations = <<>>
    /\ loading = TRUE
    /\ pending = {[cid |-> 0, kind |-> "init", id |-> 0, arg |-> NoArg,
                   phase |-> "sent", error |-> FALSE, row |-> NoRow,
                   rows |-> <<>>, count |-> 0, born |-> {},
                   session |-> "this"]}
    /\ nextCall = 1
    /\ requests = [c \in 0..MaxCalls |-> 0]
    /\ deleted = {}
    /\ lastDone = NotDone
    /\ searchTerm = <<>>
    /\ dateFilter = [start |-> Today, end |-> Today]
    /\ rendered = <<>>
    /\ notice = NoNotice
    /\ otherList = <<>>
    /\ writes = <<>>
    /\ OtherIdle

----------------------------------------------------------------------------
(* The store processes a request *)

Answer(c, d) == pending' = (pending \ {c}) \cup {d}

Received(c) == requests' = [requests EXCEPT ![c.cid] = @ + 1]

\* from('reservations').select('*').order('created_at', ...)
StoreSelect(c) ==
    /\ c.phase = "sent" /\ c.kind \in {"init", "refresh"}
    /\ Answer(c, [c EXCEPT !.phase = "answered",
                           !.rows = DbSelectOrdered(db)])
    /\ Received(c)
    /\ UNCHANGED <<db, clock, reservations, loading, nextCall, deleted,
                   lastDone>>
    /\ UNCHANGED <<viewVars, sessionVars, otherVars>>

\* from('reservations').insert([reservation]).select().single()
StoreInsert(c) ==
    /\ c.phase = "sent" /\ c.kind = "add"
    /\ LET row == DbRow(c.arg, clock + 1, clock + 1)
       IN  /\ db' = DbInsert(db, row)
           /\ Answer(c, [c EXCEPT !.phase = "answered", !.row = row])
    /\ clock' = clock + 1
    /\ Received(c)
    /\ otherList' = Broadcast(otherList, db')
    /\ UNCHANGED <<reservations, loading, nextCall, deleted, lastDone>>
    /\ UNCHANGED <<viewVars, writes, otherVars>>

\* from('reservations').update(updates).eq('id', id)
StoreUpdate(c) ==
    /\ c.phase = "sent" /\ c.kind \in {"update", "save"}
    /\ db' = DbUpdate(db, c.id, c.arg)
    /\ Answer(c, [c EXCEPT !.phase = "answered"])
    /\ Received(c)
    /\ writes' = Append(writes, [cid |-> c.cid, session |-> c.session,
                                 id |-> c.id, arg |-> c.arg])
    /\ otherList' = Broadcast(otherList, db')
    /\ UNCHANGED <<clock, reservations, loading, nextCall, deleted, lastDone>>
    /\ UNCHANGED <<viewVars, otherVars>>

\* from('reservations').delete().eq('id', id)
StoreDelete(c) ==
    /\ c.phase = "sent" /\ c.kind = "delete"
    /\ db' = DbDelete(db, c.id)
    /\ Answer(c, [c EXCEPT !.phase = "answered"])
    /\ Received(c)
    /\ otherList' = Broadcast(otherList, db')
    /\ UNCHANGED <<clock, reservations, loading, nextCall, deleted, lastDone>>
    /\ UNCHANGED <<viewVars, writes, otherVars>>

\* The store rejects the request: { data: null, error }
StoreReject(c) ==
    /\ c.phase = "sent"
    /\ Answer(c, [c EXCEPT !.phase = "answered", !.error = TRUE])
    /\ Received(c)
    /\ UNCHANGED <<db, clock, reservations, loading, nextCall, deleted,
                   lastDone>>
    /\ UNCHANGED <<viewVars, sessionVars, otherVars>>

----------------------------------------------------------------------------
(* The continuation of a call handles the response *)

\* Variant: the request is sent again after an error.
Rethrow_Retry(c) ==
    (pending \ {c}) \cup {[c EXCEPT !.phase = "sent", !.error = FALSE]}

\* catch (error) { console.error(...); throw error; }: the promise rejects
\* and nothing else is sent.
Rethrow(c) == pending \ {c}

\* React renders ViewReservations again with the new state.
Rerender ==
    /\ rendered' = Render(reservations', searchTerm, dateFilter)
    /\ UNCHANGED <<searchTerm, dateFilter, notice>>
    /\ UNCHANGED <<sessionVars, otherVars>>

\* fetchReservations after the await; initializeData then clears loading.
fetchReservationsDone(c) ==
    /\ c.phase = "answered" /\ c.kind \in {"init", "refresh"}
    /\ c.session = "this"
    /\ reservations' = IF c.error THEN reservations ELSE c.rows
    /\ loading' = IF c.kind = "init" THEN FALSE ELSE loading
    /\ pending' = pending \ {c}
    /\ Settle(c, "resolved")
    /\ UNCHANGED <<db, clock, nextCall, requests, deleted>>
    /\ Rerender

\* addReservation after the await
addReservationDone(c) ==
    /\ c.phase = "answered" /\ c.kind = "add"
    /\ c.session = "this"
    /\ IF c.error
       THEN /\ pending' = Rethrow(c)
            /\ Settle(c, "thrown")
            /\ UNCHANGED reservations
       ELSE /\ reservations' = PrependRow(reservations, c.row)
            /\ pending' = pending \ {c}
            /\ Settle(c, "resolved")
    /\ UNCHANGED <<db, clock, loading, nextCall, requests, deleted>>
    /\ Rerender

\* updateReservation after the await
updateReservationDone(c) ==
    /\ c.phase = "answered" /\ c.kind = "update"
    /\ c.session = "this"
    /\ IF c.error
       THEN /\ pending' = Rethrow(c)
            /\ Settle(c, "thrown")
            /\ UNCHANGED reservations
       ELSE /\ reservations' = MapMerge(reservations, c.id, c.arg)
            /\ pending' = pending \ {c}
            /\ Settle(c, "resolved")
    /\ UNCHANGED <<db, clock, loading, nextCall, requests, deleted>>
    /\ Rerender

\* deleteReservation after the await
deleteReservationDone(c) ==
    /\ c.phase = "answered" /\ c.kind = "delete"
    /\ c.session = "this"
    /\ IF c.error
       THEN /\ pending' = Rethrow(c)
            /\ Settle(c, "thrown")
            /\ UNCHANGED <<reservations, deleted>>
       ELSE /\ reservations' = FilterOut(reservations, c.id)
            /\ deleted' = deleted \cup {c.id}
            /\ pending' = pending \ {c}
            /\ Settle(c, "resolved")
    /\ UNCHANGED <<db, clock, loading, nextCall, requests>>
    /\ Rerender

----------------------------------------------------------------------------
(* User actions of ViewReservations that call the context *)

\* "Mark Deposit Paid" button
DepositToggle(reservation) ==
    [depositPaidStatus |-> ~reservation.depositPaidStatus]

\* Variant: isPaid follows restPaidStatus in both directions.
RestToggle_Unpay(reservation) ==
    [restPaidStatus |-> ~reservation.restPaidStatus,
     isPaid |-> ~reservation.restPaidStatus]

\* "Mark Rest Paid" button
RestToggle(reservation) ==
    [restPaidStatus |-> ~reservation.restPaidStatus,
     isPaid |-> IF ~reservation.restPaidStatus THEN TRUE
                ELSE reservation.isPaid]

ClickDepositToggle ==
    \E i \in 1..Len(reservations) :
        updateReservation(reservations[i].id, DepositToggle(reservations[i]))

ClickRestToggle ==
    \E i \in 1..Len(reservations) :
        updateReservation(reservations[i].id, RestToggle(reservations[i]))

\* handleDelete, confirmed
handleDelete ==
    \E i \in 1..Len(reservations) : deleteReservation(reservations[i].id)

SubmitNewReservation == \E p \in Payloads : addReservation(p)

Next ==
    \/ refreshReservations
    \/ SubmitNewReservation
    \/ ClickDepositToggle
    \/ ClickRestToggle
    \/ handleDelete
    \/ \E c \in pending : StoreSelect(c)
    \/ \E c \in pending : StoreInsert(c)
    \/ \E c \in pending : StoreUpdate(c)
    \/ \E c \in pending : StoreDelete(c)
    \/ \E c \in pending : StoreReject(c)
    \/ \E c \in pending : fetchReservationsDone(c)
    \/ \E c \in pending : addReservationDone(c)
    \/ \E c \in pending : updateReservationDone(c)
    \/ \E c \in pending : deleteReservationDone(c)

Spec == Init /\ [][Next]_vars

----------------------------------------------------------------------------
(* ViewReservations on its own: the list is loaded and the user types a    *)
(* search term, picks dates, and a created reservation is announced.       *)

Terms == UNION {[1..n -> Chars] : n \in 0..MaxTermLen}

ProbeDates == {<<2024, 2, 29>>, <<2024, 3, 1>>, Today}

ProbeAmounts == {<<25000, 5000>>, <<12050, 2005>>, <<1000, 2500>>, <<5, 0>>}

ProbeBase == [SeedRow EXCEPT !.lastName = <<"n", "n">>]

ProbeRows ==
    {[ProbeBase EXCEPT !.reservationNumber = n, !.firstName = fn, !.phone = ph]
        : n \in {4, 1041}, fn \in {<<"A", "n">>, <<"n">>},
          ph \in {<<"4", "4">>, <<"4", "A">>}}
    \cup {[ProbeBase EXCEPT !.appointmentDate = d] : d \in ProbeDates}
    \cup {[ProbeBase EXCEPT !.totalPrice = a[1], !.depositPaid = a[2]]
            : a \in ProbeAmounts}

WebhookOutcomes == {"ok", "notok", "throw", "badjson"}

ViewInit ==
    /\ \E r \in ProbeRows :
         /\ db = {r}
         /\ reservations = <<r>>
         /\ rendered = Render(<<r>>, <<>>, [start |-> Today, end |-> Today])
    /\ clock = 1
    /\ loading = FALSE
    /\ pending = {}
    /\ nextCall = 1
    /\ requests = [c \in 0..MaxCalls |-> 0]
    /\ deleted = {}
    /\ lastDone = NotDone
    /\ searchTerm = <<>>
    /\ dateFilter = [start |-> Today, end |-> Today]
    /\ notice = NoNotice
    /\ otherList = <<>>
    /\ writes = <<>>
    /\ OtherIdle

\* onChange of the search input
setSearchTerm(value) ==
    /\ searchTerm' = value
    /\ rendered' = Render(reservations, value, dateFilter)
    /\ UNCHANGED <<dataVars, dateFilter, notice, sessionVars, otherVars>>

\* onChange of the From date input
setDateFilterStart(value) ==
    /\ dateFilter' = [dateFilter EXCEPT !.start = value]
    /\ rendered' = Render(reservations, searchTerm, dateFilter')
    /\ UNCHANGED <<dataVars, searchTerm, notice, sessionVars, otherVars>>

\* onChange of the To date input
setDateFilterEnd(value) ==
    /\ dateFilter' = [dateFilter EXCEPT !.end = value]
    /\ rendered' = Render(reservations, searchTerm, dateFilter')
    /\ UNCHANGED <<dataVars, searchTerm, notice, sessionVars, otherVars>>

\* One request to the relay about a reservation of the list
serve(method, reservation, env, webhook) ==
    /\ notice' = Relay(method, reservation, env, webhook)
    /\ UNCHANGED <<dataVars, searchTerm, dateFilter, rendered>>
    /\ UNCHANGED <<sessionVars, otherVars>>

ViewNext ==
    \/ \E t \in Terms : setSearchTerm(t)
    \/ \E d \in ProbeDates \cup {<<>>} : setDateFilterStart(d)
    \/ \E d \in ProbeDates \cup {<<>>} : setDateFilterEnd(d)

ViewSpec == ViewInit /\ [][ViewNext]_vars

NoticeNext ==
    \/ \E d \in ProbeDates \cup {<<>>} : setDateFilterStart(d)
    \/ \E d \in ProbeDates \cup {<<>>} : setDateFilterEnd(d)
    \/ \E m \in {"OPTIONS", "POST"}, r \in Range(reservations),
          e \in [phone : BOOLEAN, target : BOOLEAN, url : BOOLEAN],
          w \in WebhookOutcomes : serve(m, r, e, w)

NoticeSpec == ViewInit /\ [][NoticeNext]_vars

----------------------------------------------------------------------------
(* Two sessions on the same table: this session as above, and a second     *)
(* session that loaded the list earlier, toggles the deposit flag of a row *)
(* it shows and reloads on demand.                                         *)

OtherCall(kind, id, arg) == [Call(kind, id, arg) EXCEPT !.session = "other"]

\* The list the other session loaded before the deposit was marked paid.
StaleRow == [SeedRow EXCEPT !.depositPaidStatus = FALSE]

TwoInit ==
    /\ db = {SeedRow}
    /\ clock = 1
    /\ reservations = <<SeedRow>>
    /\ loading = FALSE
    /\ pending = {}
    /\ nextCall = 1
    /\ requests = [c \in 0..MaxCalls |-> 0]
    /\ deleted = {}
    /\ lastDone = NotDone
    /\ searchTerm = <<>>
    /\ dateFilter = [start |-> Today, end |-> Today]
    /\ rendered = Render(<<SeedRow>>, <<>>, [start |-> Today, end |-> Today])
    /\ notice = NoNotice
    /\ otherList \in {<<SeedRow>>, <<StaleRow>>}
    /\ writes = <<>>
    /\ OtherIdle

\* refreshReservations of the other session
otherRefreshReservations == Send(OtherCall("refresh", 0, NoArg))

\* "Mark Deposit Paid" button of the other session: updateReservation, up
\* to the await
otherClickDepositToggle ==
    \E i \in 1..Len(otherList) :
        Send(OtherCall("update", otherList[i].id,
                       DepositToggle(otherList[i])))

\* fetchReservations of the other session after the await
otherFetchReservationsDone(c) ==
    /\ c.phase = "answered" /\ c.kind = "refresh"
    /\ c.session = "other"
    /\ otherList' = IF c.error THEN otherList ELSE c.rows
    /\ pending' = pending \ {c}
    /\ Settle(c, "resolved")
    /\ UNCHANGED <<db, clock, reservations, loading, nextCall, requests,
                   deleted>>
    /\ UNCHANGED <<viewVars, writes, otherVars>>

\* updateReservation of the other session after the await
otherUpdateReservationDone(c) ==
    /\ c.phase = "answered" /\ c.kind = "update"
    /\ c.session = "other"
    /\ IF c.error
       THEN /\ pending' = Rethrow(c)
            /\ Settle(c, "thrown")
            /\ UNCHANGED otherList
       ELSE /\ otherList' = MapMerge(otherList, c.id, c.arg)
            /\ pending' = pending \ {c}
            /\ Settle(c, "resolved")
    /\ UNCHANGED <<db, clock, reservations, loading, nextCall, requests,
                   deleted>>
    /\ UNCHANGED <<viewVars, writes, otherVars>>

TwoNext ==
    \/ SubmitNewReservation
    \/ ClickDepositToggle
    \/ handleDelete
    \/ otherRefreshReservations
    \/ otherClickDepositToggle
    \/ \E c \in pending : StoreSelect(c)
    \/ \E c \in pending : StoreInsert(c)
    \/ \E c \in pending : StoreUpdate(c)
    \/ \E c \in pending : StoreDelete(c)
    \/ \E c \in pending : StoreReject(c)
    \/ \E c \in pending : addReservationDone(c)
    \/ \E c \in pending : updateReservationDone(c)
    \/ \E c \in pending : deleteReservationDone(c)
    \/ \E c \in pending : otherFetchReservationsDone(c)
    \/ \E c \in pending : otherUpdateReservationDone(c)

TwoSpec == TwoInit /\ [][TwoNext]_vars

----------------------------------------------------------------------------
(* ReservationAnalytics on its own: the list is loaded, the user picks a   *)
(* period.                                                                 *)

\* Calendar days on which the page is opened: the day after the clocks
\* went forward, an ordinary day, the day after they went back.
WallDates == {<<2025, 3, 31>>, Today, <<2025, 10, 27>>}

Walls == [zone : Zones, today : {NewDate(d).time : d \in WallDates}]

\* Creation times around the edges of the periods: the last millisecond
\* before a local midnight, the midnight, and noon.
ProbeTimes(w) ==
    {Shift(LocalMidnight(w.zone, w.today + k), 0, ms) :
        k \in {-31, -30, -29, -7, -6, -2, -1, 0, 1},
        ms \in {-1, 0, 12 * MsPerHour}}

TimeRows(w) ==
    {[SeedRow EXCEPT !.createdAt = t, !.appointmentDate = d] :
        t \in ProbeTimes(w), d \in {<<2024, 2, 29>>, Today}}

MoneyRows(w) ==
    {[SeedRow EXCEPT
        !.createdAt = Shift(LocalMidnight(w.zone, w.today), 0, 12 * MsPerHour),
        !.totalPrice = a[1], !.depositPaid = a[2],
        !.depositPaidStatus = dps, !.restPaidStatus = rps, !.isPaid = ip] :
        a \in {<<25000, 5000>>, <<12050, 2005>>},
        dps \in BOOLEAN, rps \in BOOLEAN, ip \in BOOLEAN}

\* A loaded list: every entry has its own id.
WithIds(list) == [i \in 1..Len(list) |-> [list[i] EXCEPT !.id = i]]

LoadedLists(w) ==
    {WithIds(l) : l \in [1..1 -> TimeRows(w)]
                         \cup UNION {[1..n -> MoneyRows(w)] : n \in 0..MaxRows}}

AnalyticsInit ==
    /\ wall \in Walls
    /\ reservations \in LoadedLists(wall)
    /\ db = Range(reservations)
    /\ selectedPeriod = "today"
    /\ analytics = Analytics(reservations, "today", wall)
    /\ clock = Len(reservations)
    /\ loading = FALSE
    /\ pending = {}
    /\ nextCall = 1
    /\ requests = [c \in 0..MaxCalls |-> 0]
    /\ deleted = {}
    /\ lastDone = NotDone
    /\ searchTerm = <<>>
    /\ dateFilter = [start |-> Today, end |-> Today]
    /\ rendered = <<>>
    /\ notice = NoNotice
    /\ otherList = <<>>
    /\ writes = <<>>
    /\ emails = {}
    /\ email_attachments = {}
    /\ response = NoResponse
    /\ EditIdle
    /\ MailIdle

\* onClick of a period button
setSelectedPeriod(period) ==
    /\ selectedPeriod' = period
    /\ analytics' = Analytics(reservations, period, wall)
    /\ UNCHANGED <<dataVars, viewVars, sessionVars, wall, inboundVars>>
    /\ UNCHANGED <<editVars, mailVars>>

AnalyticsNext == \E p \in Periods : setSelectedPeriod(p)

AnalyticsSpec == AnalyticsInit /\ [][AnalyticsNext]_vars

----------------------------------------------------------------------------
(* Company mail: the row-level security of the two tables, the unread      *)
(* badge of Navigation and the handlers of EmailViewer.  EmailViewer is    *)
(* open with the filter 'all'; the refetch of its own change subscription  *)
(* is the fetch of toggleArchive and deleteEmail and is not repeated here. *)

\* The staff rows a session may be logged in with
Staff ==
    {[role |-> "admin", permissions |-> {}],
     [role |-> "reception", permissions |-> {"emails"}],
     [role |-> "artist", permissions |-> {"reservations"}]}

\* Navigation.hasPermission
hasPermission(u, permission) ==
    permission \in u.permissions \/ u.role = "admin"

Tables == {"emails", "email_attachments"}
Operations == {"select", "insert", "update", "delete"}

\* staff.role = 'admin' OR 'emails' = ANY(staff.permissions)
MailAccess(staff) == staff.role = "admin" \/ "emails" \in staff.permissions

\* The policies of the migration, for a request of an authenticated user
\* whose staff row is staff.  Row-level security is enabled on both tables,
\* so an operation without a policy is denied.
Policy(table, op, staff) ==
    CASE table = "emails" /\ op \in {"select", "insert", "update"} ->
             MailAccess(staff)
      [] table = "emails" /\ op = "delete" -> staff.role = "admin"
      [] table = "email_attachments" /\ op \in {"select", "insert"} ->
             MailAccess(staff)
      [] table = "email_attachments" /\ op = "delete" -> staff.role = "admin"
      [] OTHER -> FALSE

\* The rows of a table a statement of the user sees or touches
Granted(table, op, rows) == IF Policy(table, op, user) THEN rows ELSE {}

\* .eq('is_read', false).eq('is_archived', false)
Unread(rows) == {e \in rows : ~e.is_read /\ ~e.is_archived}

\* order('received_at', { ascending: false }); a later request is received
\* later
RECURSIVE EmailsOrdered(_)
EmailsOrdered(rows) ==
    IF rows = {} THEN <<>>
    ELSE LET latest == CHOOSE r \in rows : \A q \in rows : q.id <= r.id
         IN  <<latest>> \o EmailsOrdered(rows \ {latest})

\* Variant: the attachments of a deleted email stay.
Cascade_None(rows, mails) == rows

\* email_id uuid NOT NULL REFERENCES emails(id) ON DELETE CASCADE
Cascade(rows, mails) == {a \in rows : a.email_id \in Ids(mails)}

\* update(values).eq('id', id) on emails, under the UPDATE policy
EmailsUpdate(rows, id, values) ==
    {IF r.id = id /\ r \in Granted("emails", "update", rows)
     THEN [f \in DOMAIN r |-> IF f \in DOMAIN values THEN values[f] ELSE r[f]]
     ELSE r : r \in rows}

\* delete().eq('id', id) on emails, under the DELETE policy
EmailsDelete(rows, id) ==
    {r \in rows : ~(r.id = id /\ r \in Granted("emails", "delete", rows))}

\* The number of a fetch that a change notification starts
FreeCid(calls) ==
    LET used == {-c.cid : c \in calls}
        k == CHOOSE n \in 1..(Cardinality(calls) + 1) :
                 n \notin used /\ \A j \in 1..(n - 1) : j \in used
    IN  -k

\* Navigation.fetchUnreadCount, up to the await
fetchUnreadCount(calls) ==
    calls \cup {[Call("unread", NoId, NoArg) EXCEPT !.cid = FreeCid(calls)]}

\* Navigation's subscription to postgres_changes of table emails, made
\* for a user with hasPermission('emails'): a statement that changes the
\* table publishes an event.
Published(before, after) ==
    IF hasPermission(user, "emails") /\ before # after
    THEN events + 1 ELSE events

MailQuiet ==
    /\ UNCHANGED <<db, clock, reservations, loading, requests, deleted>>
    /\ UNCHANGED <<viewVars, sessionVars, analyticsVars, editVars>>

----------------------------------------------------------------------------
(* The inbound-email handler on its own: the mail provider posts messages. *)

\* Messages with and without a Message-Id and a sender and no
\* attachment, and messages of sender 'a' with MaxAttachments attachments.
InboundPayloads ==
    {[MessageId |-> h[1], sender |-> h[2], from |-> <<"F">>,
      subject |-> Absent, attachments |-> <<>>] :
        h \in {<<Absent, <<"a">>>>, <<Absent, Absent>>, <<<<>>, <<"a">>>>,
               <<<<"m">>, <<"a">>>>}}
    \cup {[MessageId |-> m, sender |-> <<"a">>, from |-> <<"F">>,
           subject |-> Absent,
           attachments |-> [i \in 1..MaxAttachments |->
                               [filename |-> <<"f">>, size |-> 10]]] :
            m \in {Absent, <<"m">>}}

\* Date.now() when a request is handled, in milliseconds
Times == {1000, 1001}

InboundInit ==
    /\ db = {SeedRow}
    /\ clock = 1
    /\ reservations = <<SeedRow>>
    /\ loading = FALSE
    /\ pending = {}
    /\ nextCall = 1
    /\ requests = [c \in 0..MaxCalls |-> 0]
    /\ deleted = {}
    /\ lastDone = NotDone
    /\ searchTerm = <<>>
    /\ dateFilter = [start |-> Today, end |-> Today]
    /\ rendered = <<>>
    /\ notice = NoNotice
    /\ otherList = <<>>
    /\ writes = <<>>
    /\ OtherIdle

\* One request to the handler
handleInbound(method, env, contentType, parses, body, now, insert, outcomes) ==
    /\ response.n < MaxRequests
    /\ LET after == Inbound(response.n + 1, method, env, contentType,
                            parses, body, now, insert, outcomes)
       IN  /\ emails' = after.rows
           /\ email_attachments' = after.attachments
           /\ response' = after.response
    /\ events' = Published(emails, emails')
    /\ UNCHANGED <<pending, nextCall, lastDone, user, unreadCount, inbox,
                   selectedEmail, attachments>>
    /\ MailQuiet

\* What the handler does not read on a path is held fixed.
AllSet == [url |-> TRUE, key |-> TRUE]

Bare == [MessageId |-> Absent, sender |-> <<"a">>, from |-> <<"F">>,
         subject |-> Absent, attachments |-> <<>>]

Outcomes(body) == [1..Len(body.attachments) -> {"ok", "error", "throw"}]

\* The preflight request
InboundOptions ==
    handleInbound("OPTIONS", AllSet, "json", TRUE, Bare, 1000, "ok", <<>>)

\* A variable of the function's environment is not set.
InboundUnconfigured ==
    \E env \in [url : BOOLEAN, key : BOOLEAN] \ {AllSet} :
        handleInbound("POST", env, "json", TRUE, Bare, 1000, "ok", <<>>)

\* The body is of another content type, or cannot be read.
InboundUnreadable ==
    \E contentType \in {"json", "form", "text"}, parses \in BOOLEAN :
        /\ contentType = "text" \/ ~parses
        /\ handleInbound("POST", AllSet, contentType, parses, Bare, 1000,
                         "ok", <<>>)

\* A message in a JSON body
InboundJson ==
    \E body \in InboundPayloads, now \in Times, insert \in {"ok", "error"} :
        \E outcomes \in Outcomes(body) :
            /\ insert = "error" => body.attachments = <<>>
            /\ Truthy(body.MessageId) => now = 1000
            /\ handleInbound("POST", AllSet, "json", TRUE, body, now, insert,
                             outcomes)

\* A message in a form body
InboundForm ==
    \E body \in InboundPayloads, now \in Times :
        /\ Truthy(body.MessageId) => now = 1000
        /\ handleInbound("POST", AllSet, "form", TRUE, body, now, "ok", <<>>)

InboundNext ==
    \/ InboundOptions
    \/ InboundUnconfigured
    \/ InboundUnreadable
    \/ InboundJson
    \/ InboundForm

InboundSpec == InboundInit /\ [][InboundNext]_vars

----------------------------------------------------------------------------
(* EmailViewer and the store: messages arrive while a logged-in user has   *)
(* EmailViewer open.                                                       *)

\* select('*').eq('email_id', emailId) on email_attachments, in the order
\* the rows were inserted
RECURSIVE AttachmentsOrdered(_)
AttachmentsOrdered(rows) ==
    IF rows = {} THEN <<>>
    ELSE LET first == CHOOSE r \in rows : \A q \in rows : r.id[2] <= q.id[2]
         IN  <<first>> \o AttachmentsOrdered(rows \ {first})

MailInit ==
    /\ db = {SeedRow}
    /\ clock = 1
    /\ reservations = <<SeedRow>>
    /\ loading = FALSE
    /\ user \in Staff
    /\ nextCall = 1
    /\ requests = [c \in 0..MaxCalls |-> 0]
    /\ deleted = {}
    /\ pending = {[Call("emails", NoId, NoArg) EXCEPT !.cid = 0]}
    /\ lastDone = NotDone
    /\ searchTerm = <<>>
    /\ dateFilter = [start |-> Today, end |-> Today]
    /\ rendered = <<>>
    /\ notice = NoNotice
    /\ otherList = <<>>
    /\ writes = <<>>
    /\ selectedPeriod = "today"
    /\ wall = [zone |-> "UTC", today |-> NewDate(Today).time]
    /\ analytics = Analytics(<<>>, "today", wall)
    /\ emails = {}
    /\ email_attachments = {}
    /\ response = NoResponse
    /\ EditIdle
    /\ unreadCount = 0
    /\ inbox = <<>>
    /\ selectedEmail = NoEmail
    /\ attachments = <<>>
    /\ events = 0

\* A message with attachments is posted to the inbound handler and stored.
MailArrives ==
    \E body \in {b \in InboundPayloads :
                    b.MessageId = Absent /\ b.attachments # <<>>} :
        handleInbound("POST", AllSet, "json", TRUE, body,
                      1000 + response.n, "ok",
                      [i \in 1..Len(body.attachments) |-> "ok"])

\* The store answers the count query of fetchUnreadCount.
StoreCountUnread(c) ==
    /\ c.phase = "sent" /\ c.kind = "unread"
    /\ Answer(c, [c EXCEPT
                    !.phase = "answered",
                    !.count = Cardinality(
                        Unread(Granted("emails", "select", emails)))])
    /\ UNCHANGED <<nextCall, lastDone, inboundVars, mailVars>>
    /\ MailQuiet

\* The store answers the query of fetchEmails.
StoreSelectEmails(c) ==
    /\ c.phase = "sent" /\ c.kind = "emails"
    /\ Answer(c, [c EXCEPT
                    !.phase = "answered",
                    !.rows = EmailsOrdered(
                        {e \in Granted("emails", "select", emails) :
                            ~e.is_archived})])
    /\ UNCHANGED <<nextCall, lastDone, inboundVars, mailVars>>
    /\ MailQuiet

\* The store answers the query of fetchAttachments.
StoreSelectAttachments(c) ==
    /\ c.phase = "sent" /\ c.kind = "attachments"
    /\ Answer(c, [c EXCEPT
                    !.phase = "answered",
                    !.rows = AttachmentsOrdered(
                        {a \in Granted("email_attachments", "select",
                                       email_attachments) :
                            a.email_id = c.id})])
    /\ UNCHANGED <<nextCall, lastDone, inboundVars, mailVars>>
    /\ MailQuiet

\* The store processes the update of markAsRead or toggleArchive.
StoreUpdateEmail(c) ==
    /\ c.phase = "sent" /\ c.kind \in {"markRead", "archive"}
    /\ emails' = EmailsUpdate(emails, c.id, c.arg.values)
    /\ Answer(c, [c EXCEPT !.phase = "answered"])
    /\ events' = Published(emails, emails')
    /\ UNCHANGED <<nextCall, lastDone, email_attachments, response, user,
                   unreadCount, inbox, selectedEmail, attachments>>
    /\ MailQuiet

\* The store processes the delete of deleteEmail.
StoreDeleteEmail(c) ==
    /\ c.phase = "sent" /\ c.kind = "deleteEmail"
    /\ emails' = EmailsDelete(emails, c.id)
    /\ email_attachments' = Cascade(email_attachments, emails')
    /\ Answer(c, [c EXCEPT !.phase = "answered"])
    /\ events' = Published(emails, emails')
    /\ UNCHANGED <<nextCall, lastDone, response, user, unreadCount, inbox,
                   selectedEmail, attachments>>
    /\ MailQuiet

MailKinds ==
    {"unread", "emails", "attachments", "markRead", "archive", "deleteEmail"}

\* The store rejects a request of Navigation or EmailViewer.
MailReject(c) ==
    /\ c.phase = "sent" /\ c.kind \in MailKinds
    /\ Answer(c, [c EXCEPT !.phase = "answered", !.error = TRUE])
    /\ UNCHANGED <<nextCall, lastDone, inboundVars, mailVars>>
    /\ MailQuiet

\* fetchUnreadCount after the await
fetchUnreadCountDone(c) ==
    /\ c.phase = "answered" /\ c.kind = "unread"
    /\ unreadCount' = IF c.error THEN unreadCount ELSE c.count
    /\ pending' = pending \ {c}
    /\ Settle(c, "resolved")
    /\ UNCHANGED <<nextCall, inboundVars, user, inbox, selectedEmail,
                   attachments, events>>
    /\ MailQuiet

\* fetchEmails after the await
fetchEmailsDone(c) ==
    /\ c.phase = "answered" /\ c.kind = "emails"
    /\ inbox' = IF c.error THEN inbox ELSE c.rows
    /\ pending' = pending \ {c}
    /\ Settle(c, "resolved")
    /\ UNCHANGED <<nextCall, inboundVars, user, unreadCount, selectedEmail,
                   attachments, events>>
    /\ MailQuiet

\* fetchAttachments after the await
fetchAttachmentsDone(c) ==
    /\ c.phase = "answered" /\ c.kind = "attachments"
    /\ attachments' = IF c.error THEN attachments ELSE c.rows
    /\ pending' = pending \ {c}
    /\ Settle(c, "resolved")
    /\ UNCHANGED <<nextCall, inboundVars, user, unreadCount, inbox,
                   selectedEmail, events>>
    /\ MailQuiet

\* emails.map(email => email.id === emailId ? { ...email, is_read: true }
\* : email), on the list of the render that called markAsRead
MarkRead(list, id) ==
    [i \in 1..Len(list) |->
        IF list[i].id = id THEN [list[i] EXCEPT !.is_read = TRUE]
        ELSE list[i]]

\* markAsRead after the await, then handleEmailClick goes on to
\* fetchAttachments
markAsReadDone(c) ==
    /\ c.phase = "answered" /\ c.kind = "markRead"
    /\ inbox' = IF c.error THEN inbox ELSE MarkRead(c.arg.list, c.id)
    /\ pending' = (pending \ {c}) \cup {Call("attachments", c.id, NoArg)}
    /\ nextCall' = nextCall + 1
    /\ Settle(c, "resolved")
    /\ UNCHANGED <<inboundVars, user, unreadCount, selectedEmail,
                   attachments, events>>
    /\ MailQuiet

\* toggleArchive and deleteEmail after the await: fetchEmails() and
\* setSelectedEmail(null), the email being the selected one
Refetch(c) ==
    /\ IF c.error
       THEN /\ pending' = pending \ {c}
            /\ UNCHANGED <<nextCall, selectedEmail>>
       ELSE /\ pending' = (pending \ {c}) \cup {Call("emails", NoId, NoArg)}
            /\ nextCall' = nextCall + 1
            /\ selectedEmail' = NoEmail
    /\ Settle(c, "resolved")
    /\ UNCHANGED <<inboundVars, user, unreadCount, inbox, attachments,
                   events>>
    /\ MailQuiet

toggleArchiveDone(c) ==
    /\ c.phase = "answered" /\ c.kind = "archive"
    /\ Refetch(c)

deleteEmailDone(c) ==
    /\ c.phase = "answered" /\ c.kind = "deleteEmail"
    /\ Refetch(c)

\* A request of a handler of EmailViewer is sent.
MailSend(c) ==
    /\ nextCall <= MaxCalls
    /\ pending' = pending \cup {c}
    /\ nextCall' = nextCall + 1
    /\ UNCHANGED <<lastDone, inboundVars, user, unreadCount, inbox,
                   attachments, events>>
    /\ MailQuiet

\* handleEmailClick, up to the first await
handleEmailClick ==
    \E i \in 1..Len(inbox) :
        /\ selectedEmail' = inbox[i]
        /\ IF ~inbox[i].is_read
           THEN MailSend(Call("markRead", inbox[i].id,
                              [values |-> [is_read |-> TRUE],
                               list |-> inbox]))
           ELSE MailSend(Call("attachments", inbox[i].id, NoArg))

\* toggleArchive(selectedEmail.id, selectedEmail.is_archived), up to the
\* await
toggleArchive ==
    /\ selectedEmail # NoEmail
    /\ MailSend(Call("archive", selectedEmail.id,
                     [values |-> [is_archived |-> ~selectedEmail.is_archived]]))
    /\ UNCHANGED selectedEmail

\* deleteEmail(selectedEmail.id), confirmed, up to the await
deleteEmail ==
    /\ selectedEmail # NoEmail
    /\ MailSend(Call("deleteEmail", selectedEmail.id, NoArg))
    /\ UNCHANGED selectedEmail

MailNext ==
    \/ MailArrives
    \/ handleEmailClick
    \/ toggleArchive
    \/ deleteEmail
    \/ \E c \in pending : StoreSelectEmails(c)
    \/ \E c \in pending : StoreSelectAttachments(c)
    \/ \E c \in pending : StoreUpdateEmail(c)
    \/ \E c \in pending : StoreDeleteEmail(c)
    \/ \E c \in pending : MailReject(c)
    \/ \E c \in pending : fetchEmailsDone(c)
    \/ \E c \in pending : fetchAttachmentsDone(c)
    \/ \E c \in pending : markAsReadDone(c)
    \/ \E c \in pending : toggleArchiveDone(c)
    \/ \E c \in pending : deleteEmailDone(c)

MailSpec == MailInit /\ [][MailNext]_vars

----------------------------------------------------------------------------
(* Inline editing in ViewReservations: the list is loaded, the user edits  *)
(* a row in place and saves, and clicks the payment buttons.               *)

\* Number.prototype.toString() of an amount held in cents
NumberToString(cents) ==
    LET whole == NumToString(cents \div 100)
        frac == cents % 100
    IN  IF frac = 0 THEN whole
        ELSE IF frac % 10 = 0 THEN whole \o <<".", Digit(frac \div 10)>>
        ELSE whole \o <<".", Digit(frac \div 10), Digit(frac % 10)>>

\* The value of a text of digits
RECURSIVE ParseDigits(_)
ParseDigits(text) ==
    IF text = <<>> THEN 0
    ELSE 10 * ParseDigits(SubSeq(text, 1, Len(text) - 1))
         + (CHOOSE d \in 0..9 : Digit(d) = text[Len(text)])

\* parseFloat of a text of digits with at most two decimals, in cents
parseFloat(text) ==
    LET dots == {i \in 1..Len(text) : text[i] = "."}
    IN  IF dots = {} THEN 100 * ParseDigits(text)
        ELSE LET k == CHOOSE i \in dots : TRUE
                 decimals == SubSeq(text, k + 1, Len(text))
             IN  100 * ParseDigits(SubSeq(text, 1, k - 1))
                 + (IF Len(decimals) = 1 THEN 10 * ParseDigits(decimals)
                    ELSE ParseDigits(decimals))

\* value || fallback of an artist id
ArtistOr(value, fallback) ==
    IF value \in {Undefined, ""} THEN fallback ELSE value

\* What handleEdit puts into the form
FormOf(reservation) ==
    [firstName |-> reservation.firstName,
     lastName |-> reservation.lastName,
     phone |-> reservation.phone,
     appointmentDate |-> reservation.appointmentDate,
     appointmentTime |-> reservation.appointmentTime,
     totalPrice |-> NumberToString(reservation.totalPrice),
     depositPaid |-> NumberToString(reservation.depositPaid),
     notes |-> reservation.notes,
     artistId |-> ArtistOr(reservation.artistId, "")]

\* The updates handleSaveEdit hands to updateReservation
SaveUpdates(form) ==
    [form EXCEPT !.totalPrice = parseFloat(form.totalPrice),
                 !.depositPaid = parseFloat(form.depositPaid),
                 !.artistId = ArtistOr(form.artistId, Undefined)]

\* The row of the loaded list: nothing is paid yet.
UnpaidRow == [SeedRow EXCEPT !.depositPaidStatus = FALSE]

EditInit ==
    /\ db = {UnpaidRow}
    /\ clock = 1
    /\ reservations = <<UnpaidRow>>
    /\ loading = FALSE
    /\ pending = {}
    /\ nextCall = 1
    /\ requests = [c \in 0..MaxCalls |-> 0]
    /\ deleted = {}
    /\ lastDone = NotDone
    /\ searchTerm = <<>>
    /\ dateFilter = [start |-> Today, end |-> Today]
    /\ rendered = Render(<<UnpaidRow>>, <<>>, [start |-> Today, end |-> Today])
    /\ notice = NoNotice
    /\ otherList = <<>>
    /\ writes = <<>>
    /\ OtherIdle

EditQuiet ==
    /\ UNCHANGED <<dataVars, viewVars, sessionVars, analyticsVars>>
    /\ UNCHANGED <<inboundVars, mailVars>>

\* onClick of the edit button of a row; the row in edit mode shows the save
\* and cancel buttons instead
handleEdit ==
    \E i \in 1..Len(reservations) :
        /\ reservations[i].id # editingReservation
        /\ editingReservation' = reservations[i].id
        /\ editFormData' = FormOf(reservations[i])
        /\ UNCHANGED alerts
        /\ EditQuiet

\* What the user types as a price, and picks as an artist
TypedPrices == {<<"9", "9", ".", "5">>}
PickedArtists == {""}

\* onChange of the price input and of the artist select of the edited row
setEditFormData ==
    /\ editingReservation # NoId
    /\ \/ \E text \in TypedPrices :
             editFormData' = [editFormData EXCEPT !.totalPrice = text]
       \/ \E artist \in PickedArtists :
             editFormData' = [editFormData EXCEPT !.artistId = artist]
    /\ UNCHANGED <<editingReservation, alerts>>
    /\ EditQuiet

\* handleSaveEdit, up to the await
handleSaveEdit ==
    /\ editingReservation # NoId
    /\ Send(Call("save", editingReservation, SaveUpdates(editFormData)))

handleCancelEdit ==
    /\ editingReservation # NoId
    /\ editingReservation' = NoId
    /\ editFormData' = EmptyForm
    /\ UNCHANGED alerts
    /\ EditQuiet

\* Variant: edit mode is left whether or not the update succeeded.
AfterSave_Always(editing, error) == NoId

\* setEditingReservation(null) follows the await inside the try block.
AfterSave(editing, error) == IF error THEN editing ELSE NoId

\* updateReservation after the await, and handleSaveEdit after it: leave
\* edit mode, or alert when updateReservation has thrown
handleSaveEditDone(c) ==
    /\ c.phase = "answered" /\ c.kind = "save"
    /\ c.session = "this"
    /\ IF c.error
       THEN /\ pending' = Rethrow(c)
            /\ Settle(c, "thrown")
            /\ alerts' = alerts + 1
            /\ UNCHANGED reservations
       ELSE /\ reservations' = MapMerge(reservations, c.id, c.arg)
            /\ pending' = pending \ {c}
            /\ Settle(c, "resolved")
            /\ UNCHANGED alerts
    /\ editingReservation' = AfterSave(editingReservation, c.error)
    /\ rendered' = Render(reservations', searchTerm, dateFilter)
    /\ UNCHANGED <<db, clock, loading, nextCall, requests, deleted>>
    /\ UNCHANGED <<searchTerm, dateFilter, notice, sessionVars>>
    /\ UNCHANGED <<analyticsVars, inboundVars, mailVars, editFormData>>

EditNext ==
    \/ handleEdit
    \/ setEditFormData
    \/ handleSaveEdit
    \/ handleCancelEdit
    \/ ClickDepositToggle
    \/ ClickRestToggle
    \/ \E c \in pending : StoreUpdate(c)
    \/ \E c \in pending : StoreReject(c)
    \/ \E c \in pending : updateReservationDone(c)
    \/ \E c \in pending : handleSaveEditDone(c)

EditSpec == EditInit /\ [][EditNext]_vars

----------------------------------------------------------------------------
(* Navigation and the store: messages arrive while a logged-in user has    *)
(* the navigation bar on screen.                                           *)

\* Rows stored before the session: one email read, one archived.
Shelved ==
    {[EmailRow(-1, [Bare EXCEPT !.MessageId = <<"r">>], 1)
         EXCEPT !.is_read = TRUE],
     [EmailRow(-2, [Bare EXCEPT !.MessageId = <<"v">>], 1)
         EXCEPT !.is_archived = TRUE]}

\* Navigation mounts: useEffect calls fetchUnreadCount and subscribes when
\* hasPermission('emails'), and does nothing otherwise.
BadgeInit ==
    /\ db = {SeedRow}
    /\ clock = 1
    /\ reservations = <<SeedRow>>
    /\ loading = FALSE
    /\ user \in Staff
    /\ nextCall = 1
    /\ requests = [c \in 0..MaxCalls |-> 0]
    /\ deleted = {}
    /\ pending = IF hasPermission(user, "emails")
                 THEN fetchUnreadCount({}) ELSE {}
    /\ lastDone = NotDone
    /\ searchTerm = <<>>
    /\ dateFilter = [start |-> Today, end |-> Today]
    /\ rendered = <<>>
    /\ notice = NoNotice
    /\ otherList = <<>>
    /\ writes = <<>>
    /\ selectedPeriod = "today"
    /\ wall = [zone |-> "UTC", today |-> NewDate(Today).time]
    /\ analytics = Analytics(<<>>, "today", wall)
    /\ emails = Shelved
    /\ email_attachments = {}
    /\ response = NoResponse
    /\ EditIdle
    /\ unreadCount = 0
    /\ inbox = <<>>
    /\ selectedEmail = NoEmail
    /\ attachments = <<>>
    /\ events = 0

\* The callback of the subscription: a change event is delivered and
\* fetchUnreadCount is called.
onEmailsChange ==
    /\ events > 0
    /\ events' = events - 1
    /\ pending' = fetchUnreadCount(pending)
    /\ UNCHANGED <<nextCall, lastDone, inboundVars, user, unreadCount, inbox,
                   selectedEmail, attachments>>
    /\ MailQuiet

BadgeNext ==
    \/ MailArrives
    \/ onEmailsChange
    \/ \E c \in pending : StoreCountUnread(c)
    \/ \E c \in pending : MailReject(c)
    \/ \E c \in pending : fetchUnreadCountDone(c)

BadgeSpec == BadgeInit /\ [][BadgeNext]_vars

----------------------------------------------------------------------------
(* Properties *)

\* c is a call whose response is handled in this step
Handled(c) == c \in pending /\ c.phase = "answered" /\ c \notin pending'

\* c is a request the store accepts in this step; d is the answered call
Accepted(c, d) ==
    /\ c \in pending /\ c.phase = "sent"
    /\ d \in pending' /\ d.cid = c.cid /\ d.phase = "answered" /\ ~d.error

CountId(list, id) == Cardinality({i \in 1..Len(list) : list[i].id = id})

SamePayload(a, b) ==
    \A f \in Fields \ {"id", "createdAt"} : a[f] = b[f]

\* C1: when addReservation resolves, the row the store returned is the first
\* element of the in-memory list and the list as it was before follows it,
\* every earlier reservation present and in its previous relative order.
C1_AddPrepends ==
    [][\A c \in pending :
          (Handled(c) /\ c.kind = "add" /\ ~c.error) =>
              /\ reservations' # <<>>
              /\ Head(reservations') = c.row
              /\ Tail(reservations') = reservations]_vars

C1_Witness ==
    /\ lastDone.kind = "add" /\ lastDone.outcome = "resolved"
    /\ Len(reservations) >= 2
    /\ reservations[1].createdAt = clock
    /\ reservations[2] = SeedRow

CaseInsensitiveSubstring(text, term) ==
    Includes(ToLowerCase(text), ToLowerCase(term))

\* C3: a reservation passes the text search iff the term is a
\* case-insensitive substring of its number in decimal, its first name, its
\* last name or its phone.
C3_SearchIff ==
    \A i \in 1..Len(reservations) :
        LET r == reservations[i]
        IN  matchesSearch(r, searchTerm) <=>
              \/ CaseInsensitiveSubstring(NumToString(r.reservationNumber),
                                          searchTerm)
              \/ CaseInsensitiveSubstring(r.firstName, searchTerm)
              \/ CaseInsensitiveSubstring(r.lastName, searchTerm)
              \/ CaseInsensitiveSubstring(r.phone, searchTerm)

\* a is the same calendar day as b or an earlier one
CalendarLE(a, b) ==
    \/ a[1] < b[1]
    \/ a[1] = b[1] /\ a[2] < b[2]
    \/ a[1] = b[1] /\ a[2] = b[2] /\ a[3] <= b[3]

\* C4: for a date filter [start, end], a reservation passes the date filter
\* iff start <= appointmentDate <= end as calendar dates, both bounds
\* included; a filter whose start is later than its end shows no reservation.
C4_DateFilterInclusive ==
    (dateFilter.start # <<>> /\ dateFilter.end # <<>>) =>
        /\ \A i \in 1..Len(reservations) :
              LET r == reservations[i]
              IN  matchesDate(r, dateFilter) <=>
                    /\ CalendarLE(dateFilter.start, r.appointmentDate)
                    /\ CalendarLE(r.appointmentDate, dateFilter.end)
        /\ ~CalendarLE(dateFilter.start, dateFilter.end) => rendered = <<>>

C4_Witness ==
    /\ dateFilter.start # <<>>
    /\ dateFilter.start # Today
    /\ dateFilter.end = reservations[1].appointmentDate
    /\ dateFilter.start # dateFilter.end
    /\ rendered # <<>>

DigitValue(ch) == CHOOSE d \in 0..9 : Digit(d) = ch

RECURSIVE DigitsValue(_)
DigitsValue(text) ==
    IF text = <<>> THEN 0
    ELSE 10 * DigitsValue(SubSeq(text, 1, Len(text) - 1))
         + DigitValue(text[Len(text)])

\* The amount in cents that a text with two decimals denotes
ReadAmount(text) ==
    LET neg == text[1] = "-"
        body == IF neg THEN Tail(text) ELSE text
        n == Len(body)
        euros == DigitsValue(SubSeq(body, 1, n - 3))
        cents == DigitsValue(SubSeq(body, n - 1, n))
    IN  (IF neg THEN -1 ELSE 1) * (100 * euros + cents)

\* C5: the remaining amount shown in the list and the one written into the
\* notification message both denote total price minus deposit of the stored
\* values, to the cent; total 250.00 and deposit 50.00 give 200.00.
C5_RemainingIsTotalMinusDeposit ==
    LET r == reservations[1]
    IN  /\ \A i \in 1..Len(rendered) :
              /\ rendered[i].remaining[Len(rendered[i].remaining) - 2] = "."
              /\ ReadAmount(rendered[i].remaining)
                     = r.totalPrice - r.depositPaid
              /\ (r.totalPrice = 25000 /\ r.depositPaid = 5000) =>
                     rendered[i].remaining = <<"2", "0", "0", ".", "0", "0">>
        /\ notice.remaining # <<>> =>
              /\ ReadAmount(notice.remaining) = r.totalPrice - r.depositPaid
              /\ (r.totalPrice = 25000 /\ r.depositPaid = 5000) =>
                     notice.remaining = <<"2", "0", "0", ".", "0", "0">>

C5_Witness ==
    /\ rendered # <<>>
    /\ notice.remaining # <<>>
    /\ notice.remaining = rendered[1].remaining
    /\ reservations[1].depositPaid # 0
    /\ reservations[1].totalPrice # 12000

LabelIff(r) ==
    /\ StatusLabel(r) = "Fully Paid"
           <=> (r.depositPaidStatus /\ r.restPaidStatus)
    /\ StatusLabel(r) = "Deposit Paid"
           <=> (r.depositPaidStatus /\ ~r.restPaidStatus)
    /\ StatusLabel(r) = "Pending" <=> ~r.depositPaidStatus

\* C6: the label is 'Fully Paid' iff both flags are true, 'Deposit Paid' iff
\* only the deposit flag is, 'Pending' otherwise; a resolved update that sets
\* restPaidStatus on a 'Deposit Paid' reservation makes it 'Fully Paid'.
C6_StatusLabel ==
    [][/\ \A i \in 1..Len(reservations') : LabelIff(reservations'[i])
       /\ \A c \in pending :
            (/\ Handled(c) /\ c.kind = "update" /\ ~c.error
             /\ "restPaidStatus" \in DOMAIN c.arg
             /\ c.arg.restPaidStatus) =>
                \A i \in 1..Len(reservations) :
                    (/\ reservations[i].id = c.id
                     /\ reservations[i].depositPaidStatus
                     /\ StatusLabel(reservations[i]) = "Deposit Paid") =>
                        StatusLabel(reservations'[i]) = "Fully Paid"]_vars

C6_Witness ==
    /\ lastDone.kind = "update" /\ lastDone.outcome = "resolved"
    /\ \E i \in 1..Len(reservations) :
          /\ reservations[i].id = lastDone.id
          /\ reservations[i].id = SeedRow.id
          /\ StatusLabel(reservations[i]) = "Fully Paid"
          /\ reservations[i].isPaid

\* C7: when the store rejects the insert of addReservation the call throws,
\* the in-memory list is as before, and the call is over: the store received
\* exactly one request for it and none is outstanding.
C7_AddFailureRethrows ==
    [][\A c \in pending :
          (Handled(c) /\ c.kind = "add" /\ c.error) =>
              /\ lastDone'.cid = c.cid /\ lastDone'.outcome = "thrown"
              /\ reservations' = reservations
              /\ db' = db
              /\ requests'[c.cid] = 1
              /\ \A d \in pending' : d.cid # c.cid]_vars

C7_Witness ==
    /\ lastDone.kind = "add" /\ lastDone.outcome = "thrown"
    /\ requests[lastDone.cid] = 1
    /\ reservations # <<>>

\* C8: when updateReservation(id, updates) resolves, every in-memory record
\* with that id has the values of updates in the fields updates names and
\* its previous values elsewhere; the records with another id, the length
\* and the order of the list are as before.
C8_UpdateFrame ==
    [][\A c \in pending :
          (Handled(c) /\ c.kind = "update" /\ ~c.error) =>
              /\ Len(reservations') = Len(reservations)
              /\ \A i \in 1..Len(reservations) :
                    /\ reservations'[i].id = reservations[i].id
                    /\ reservations[i].id # c.id =>
                           reservations'[i] = reservations[i]
                    /\ reservations[i].id = c.id =>
                           /\ DOMAIN reservations'[i]
                                  = DOMAIN reservations[i] \cup DOMAIN c.arg
                           /\ \A f \in DOMAIN c.arg :
                                  reservations'[i][f] = c.arg[f]
                           /\ \A f \in DOMAIN reservations[i] \ DOMAIN c.arg :
                                  reservations'[i][f] = reservations[i][f]]_vars

C8_Witness ==
    /\ lastDone.kind = "update" /\ lastDone.outcome = "resolved"
    /\ Len(reservations) >= 2
    /\ \E i \in 1..Len(reservations) :
          /\ reservations[i].id = lastDone.id
          /\ reservations[i].restPaidStatus /\ reservations[i].isPaid
          /\ reservations[i].totalPrice = 12000

\* C9: every accepted insert adds one row with an id no other row has, and
\* every resolved addReservation adds one entry for that row to the
\* in-memory list, also when a row with an equal payload is already there:
\* two successful calls with the same payload give two rows and two entries.
C9_AddTwiceGivesTwoRows ==
    [][/\ Cardinality(Ids(db')) = Cardinality(db')
       /\ \A c \in pending : \A d \in pending' :
            (Accepted(c, d) /\ c.kind = "add") =>
                /\ d.row.id \notin Ids(db)
                /\ d.row \in db'
                /\ Cardinality(db') = Cardinality(db) + 1
       /\ \A c \in pending :
            (Handled(c) /\ c.kind = "add" /\ ~c.error) =>
                /\ Len(reservations') = Len(reservations) + 1
                /\ CountId(reservations', c.row.id)
                       = CountId(reservations, c.row.id) + 1]_vars

C9_Witness ==
    /\ lastDone.kind = "add" /\ lastDone.outcome = "resolved"
    /\ \E i, j \in 1..Len(reservations) :
          /\ reservations[i].id # reservations[j].id
          /\ SamePayload(reservations[i], reservations[j])
          /\ {reservations[i], reservations[j]} \subseteq db

\* One whole successful call applied to the collections, nothing overlapping
Collections == [db |-> db, clock |-> clock, list |-> reservations]

AddEffect(S, reservation) ==
    LET row == DbRow(reservation, S.clock + 1, S.clock + 1)
    IN  [db |-> DbInsert(S.db, row), clock |-> S.clock + 1,
         list |-> PrependRow(S.list, row)]

UpdateEffect(S, id, updates) ==
    [db |-> DbUpdate(S.db, id, updates), clock |-> S.clock,
     list |-> MapMerge(S.list, id, updates)]

DeleteEffect(S, id) ==
    [db |-> DbDelete(S.db, id), clock |-> S.clock,
     list |-> FilterOut(S.list, id)]

Differs(S, T) == S.db # T.db /\ S.list # T.list
Same(S, T) == S.db = T.db /\ S.list = T.list

UpdatesOf(reservation) == {DepositToggle(reservation), RestToggle(reservation)}

\* C10 as stated: for each of addReservation, updateReservation and
\* deleteReservation, performing it twice in a row with the same arguments
\* leaves the persisted and in-memory collections in a different state than
\* performing it once.
C10_NoOperationIdempotent ==
    /\ \A p \in Payloads :
          Differs(AddEffect(AddEffect(Collections, p), p),
                  AddEffect(Collections, p))
    /\ \A i \in 1..Len(reservations) :
          LET id == reservations[i].id
          IN  /\ \A u \in UpdatesOf(reservations[i]) :
                    Differs(UpdateEffect(UpdateEffect(Collections, id, u),
                                         id, u),
                            UpdateEffect(Collections, id, u))
              /\ Differs(DeleteEffect(DeleteEffect(Collections, id), id),
                         DeleteEffect(Collections, id))

\* C10 amended: addReservation is not idempotent, the second call adds a
\* second row and a second entry; updateReservation and deleteReservation
\* are: the second call with the same arguments leaves both collections as
\* the first left them.
C10_OnlyAddNotIdempotent ==
    /\ \A p \in Payloads :
          Differs(AddEffect(AddEffect(Collections, p), p),
                  AddEffect(Collections, p))
    /\ \A i \in 1..Len(reservations) :
          LET id == reservations[i].id
          IN  /\ \A u \in UpdatesOf(reservations[i]) :
                    Same(UpdateEffect(UpdateEffect(Collections, id, u), id, u),
                         UpdateEffect(Collections, id, u))
              /\ Same(DeleteEffect(DeleteEffect(Collections, id), id),
                      DeleteEffect(Collections, id))

C10_Witness ==
    /\ lastDone.kind \in {"update", "delete"}
    /\ lastDone.outcome = "resolved"
    /\ Len(reservations) >= 2
    /\ ListIds(reservations) \subseteq Ids(db)
    /\ pending = {}

\* The updates the store applied to field f of row id, by position in the
\* order of arrival.
WritesTo(id, f) ==
    {i \in 1..Len(writes) :
        /\ writes[i].id = id
        /\ f \in DOMAIN writes[i].arg
        /\ ~IsUndefined(f, writes[i].arg[f])}

Last(S) == CHOOSE i \in S : \A j \in S : j <= i

\* C11: updates of two sessions to the same field of the same reservation
\* are all accepted, whatever the row holds by then (no conflict check, no
\* conflict error), and the stored value of the field is the value of the
\* update that reached the store last: an earlier one is overwritten.
C11_LastWriteWins ==
    /\ \A c \in pending :
          c.kind = "update" /\ c.phase = "sent" => ENABLED StoreUpdate(c)
    /\ \A c \in pending :
          (c.kind = "update" /\ c.phase = "answered"
             /\ \E i \in 1..Len(writes) : writes[i].cid = c.cid)
          => ~c.error
    /\ (lastDone.kind = "update"
          /\ \E i \in 1..Len(writes) : writes[i].cid = lastDone.cid)
       => lastDone.outcome = "resolved"
    /\ \A r \in db : \A f \in Fields :
          WritesTo(r.id, f) # {}
          => r[f] = writes[Last(WritesTo(r.id, f))].arg[f]

\* Both sessions' updates of the same field resolved, with different
\* values; the table holds the second one's.
C11_Witness ==
    /\ Len(writes) = 2
    /\ pending = {}
    /\ writes[1].session # writes[2].session
    /\ writes[1].id = writes[2].id
    /\ lastDone.outcome = "resolved"
    /\ \E r \in db :
          /\ r.id = writes[2].id
          /\ writes[1].arg.depositPaidStatus # writes[2].arg.depositPaidStatus
          /\ r.depositPaidStatus = writes[2].arg.depositPaidStatus
          /\ r.depositPaidStatus # writes[1].arg.depositPaidStatus

Shown(i) ==
    \E j \in 1..Len(analytics.shown) : analytics.shown[j] = reservations[i]

\* Local midnight of today, or of the previous calendar day for 'yesterday'
DayStart(period, w) ==
    LocalMidnight(w.zone, IF period = "yesterday" THEN w.today - 1
                           ELSE w.today)

\* C13: for 'today' and 'yesterday' a reservation is shown iff it was
\* created at or after local midnight of that day and less than 24 hours
\* after it, whatever its appointment date, and no reservation is in both
\* the 'today' and the 'yesterday' set.
C13_DayPeriods ==
    analytics.period \in {"today", "yesterday"}
    => \A i \in 1..Len(reservations) :
          LET c == reservations[i].createdAt
              dayStart == DayStart(analytics.period, wall)
          IN  /\ Shown(i) <=> (TimeLE(dayStart, c)
                                 /\ TimeLT(c, Shift(dayStart, 1, 0)))
              /\ ~(/\ InRange(reservations[i], getDateRange("today", wall))
                   /\ InRange(reservations[i],
                              getDateRange("yesterday", wall)))

\* C14: 'week' shows exactly the reservations created on the 7 local
\* calendar days that end with today, 'month' those of the 30 local
\* calendar days that end with today.
C14_WeekAndMonth ==
    analytics.period \in {"week", "month"}
    => \A i \in 1..Len(reservations) :
          LET c == reservations[i].createdAt
              n == IF analytics.period = "week" THEN 7 ELSE 30
              first == LocalMidnight(wall.zone, wall.today - (n - 1))
              next == LocalMidnight(wall.zone, wall.today + 1)
          IN  Shown(i) <=> (TimeLE(first, c) /\ TimeLT(c, next))

\* The sum of field f over a list, from its last entry backwards
RECURSIVE Total(_, _)
Total(list, f) ==
    IF list = <<>> THEN 0
    ELSE Total(SubSeq(list, 1, Len(list) - 1), f) + list[Len(list)][f]

\* C15: totalRevenue and totalDeposits are the sums of totalPrice and of
\* depositPaid over the shown reservations; the average ticket is their
\* total price divided by their number, and 0 (not a division by zero)
\* when none is shown.
C15_Aggregates ==
    LET n == Len(analytics.shown)
        avg == analytics.averageTicket
    IN  /\ analytics.totalReservations = n
        /\ analytics.totalRevenue = Total(analytics.shown, "totalPrice")
        /\ analytics.totalDeposits = Total(analytics.shown, "depositPaid")
        /\ avg.den # 0
        /\ IF n = 0 THEN avg.num = 0
           ELSE avg.num * n = Total(analytics.shown, "totalPrice") * avg.den

\* Two reservations of different price are shown and averaged.
C15_Witness ==
    /\ Len(analytics.shown) = 2
    /\ analytics.totalRevenue = 25000 + 12050
    /\ analytics.totalDeposits = 5000 + 2005
    /\ analytics.averageTicket = [num |-> 37050, den |-> 2]

\* C16: fullyPaidCount is the number of shown reservations with both
\* depositPaidStatus and restPaidStatus set, whatever isPaid says;
\* pendingCount is the number of the others; together they are
\* totalReservations.
C16_PaidCounts ==
    LET paid == {j \in 1..Len(analytics.shown) :
                    /\ analytics.shown[j].depositPaidStatus
                    /\ analytics.shown[j].restPaidStatus}
    IN  /\ analytics.fullyPaidCount = Cardinality(paid)
        /\ analytics.pendingCount
             = Cardinality((1..Len(analytics.shown)) \ paid)
        /\ analytics.fullyPaidCount + analytics.pendingCount
             = analytics.totalReservations

\* One shown reservation has both flags set but not isPaid, the other has
\* isPaid set but not both flags.
C16_Witness ==
    /\ Len(analytics.shown) = 2
    /\ analytics.fullyPaidCount = 1 /\ analytics.pendingCount = 1
    /\ \E j, k \in 1..2 :
          /\ analytics.shown[j].depositPaidStatus
          /\ analytics.shown[j].restPaidStatus
          /\ ~analytics.shown[j].isPaid
          /\ analytics.shown[k].isPaid
          /\ ~analytics.shown[k].restPaidStatus

\* The step is a request to the inbound-email handler.
Handles == response'.n = response.n + 1

\* The response is of a request for which the handler derived a messageId.
Derived(r) == r.method = "POST" /\ r.messageId # Absent

\* C17: the message identifier is the payload's Message-Id when it has a
\* value; otherwise it is the sender, '-' and the handling time in
\* milliseconds, so two such requests of the same sender handled at
\* different milliseconds get different identifiers.  The email row that is
\* stored carries the identifier.
C17_MessageId ==
    [][ (Handles /\ Derived(response'))
        => LET id == response'.messageId
               prefix == ToText(response'.sender) \o <<"-">>
           IN  /\ Truthy(response'.header) => id = response'.header
               /\ ~Truthy(response'.header)
                  => /\ SubSeq(id, 1, Len(prefix)) = prefix
                     /\ DigitsValue(SubSeq(id, Len(prefix) + 1, Len(id)))
                          = response'.now
               /\ (/\ Derived(response)
                   /\ ~Truthy(response.header) /\ ~Truthy(response'.header)
                   /\ response.sender = response'.sender
                   /\ response.now # response'.now)
                  => id # response.messageId
               /\ response'.success
                  => \E e \in emails' :
                        e.id = response'.emailId /\ e.message_id = id
      ]_vars

\* Two messages of sender 'a' without Message-Id, handled one millisecond
\* apart, are both stored.
C17_Witness ==
    /\ \E e \in emails : e.message_id = <<"a", "-", "1", "0", "0", "0">>
    /\ \E e \in emails : e.message_id = <<"a", "-", "1", "0", "0", "1">>
    /\ response.success /\ ~Truthy(response.header)

\* C18: once the email row is inserted, every attachment is attempted
\* whatever the earlier ones did, the attachments whose insert succeeded
\* are stored, the email row stays, and the answer is 200, success, with
\* the id of the email row.
C18_AttachmentFailuresSkipped ==
    [][ (Handles /\ emails' # emails)
        => /\ response'.status = 200 /\ response'.success
           /\ \E e \in emails' \ emails : e.id = response'.emailId
           /\ emails \subseteq emails'
           /\ response'.attempted = 1..Len(response'.outcomes)
           /\ email_attachments \subseteq email_attachments'
           /\ Cardinality(email_attachments' \ email_attachments)
                = Cardinality({i \in 1..Len(response'.outcomes) :
                                  response'.outcomes[i] = "ok"})
           /\ \A a \in email_attachments' \ email_attachments :
                 a.email_id = response'.emailId
      ]_vars

\* Both attachment inserts failed, one by an error result and one by an
\* exception; the email is stored and the answer is a success.
C18_Witness ==
    /\ response.status = 200 /\ response.success
    /\ \A i \in 1..Len(response.outcomes) : response.outcomes[i] # "ok"
    /\ \E i \in 1..Len(response.outcomes) : response.outcomes[i] = "error"
    /\ \E i \in 1..Len(response.outcomes) : response.outcomes[i] = "throw"
    /\ response.attempted = 1..Len(response.outcomes)
    /\ \E e \in emails : e.id = response.emailId
    /\ ~\E a \in email_attachments : a.email_id = response.emailId

\* C19: a request other than OPTIONS ends either in 200, success and the
\* id of the email row it inserted, or in 500, no success and an error, and
\* then it inserted neither an email row nor an attachment row.
C19_OneOfTwoEndings ==
    [][ (Handles /\ response'.method # "OPTIONS")
        => /\ \/ /\ response'.status = 200 /\ response'.success
                 /\ response'.error = "none"
                 /\ \E e \in emails' \ emails : e.id = response'.emailId
              \/ /\ response'.status = 500 /\ ~response'.success
                 /\ response'.error # "none"
                 /\ emails' = emails
                 /\ email_attachments' = email_attachments
           /\ response'.status = 200 <=> emails' # emails
      ]_vars

\* A second message with the Message-Id of a stored one: the insert is
\* rejected, the answer is 500 and the tables are as before.
C19_Witness ==
    /\ response.n = 2
    /\ response.status = 500 /\ response.error = "insert"
    /\ Cardinality(emails) = 1
    /\ \E e \in emails : e.message_id = response.messageId

\* The step is a request to the relay: only serve writes notice.
Relays == notice' # notice /\ notice'.method = "POST"

\* The relay keeps nothing: no table and no pending call changes.
NothingStored ==
    /\ db' = db /\ emails' = emails
    /\ email_attachments' = email_attachments
    /\ pending' = pending

\* The call to the webhook was answered with a success status.
ReturnedSuccess(n) == n.calls = 1 /\ n.webhook \in {"ok", "badjson"}

\* What the answers of the relay have in common, whatever decides success
RelayFrame(n) ==
    /\ n.calls <= 1
    /\ \/ n.status = 200 /\ n.success
       \/ n.status = 500 /\ ~n.success
    /\ (n.calls = 1 /\ n.webhook = "notok") => n.status = 500
    /\ (~n.env.phone \/ ~n.env.target \/ ~n.env.url)
       => n.calls = 0 /\ n.status = 500

C21_AttachmentsReferenceEmails ==
    [][/\ \A a \in email_attachments' : a.email_id \in Ids(emails')
       /\ \A a \in email_attachments' \ email_attachments :
              a.email_id \in Ids(emails')
       /\ \A e \in emails :
              e.id \notin Ids(emails') =>
                  \A a \in email_attachments' : a.email_id # e.id]_vars

\* Two messages with attachments were stored, the user has deleted one of
\* them, and the attachments of the other are still there.
C21_Witness ==
    /\ lastDone.kind = "deleteEmail"
    /\ response.n = 2 /\ response.success
    /\ Cardinality(emails) = 1
    /\ email_attachments # {}
    /\ \A a \in email_attachments : a.email_id \in Ids(emails)

\* C22: an authenticated requester may select, insert, update and delete
\* rows of emails and of email_attachments exactly when their staff row has
\* role 'admin' or lists 'emails' among its permissions: one predicate
\* gates the four operations on both tables.
C22_OnePredicateGatesAll ==
    \A table \in Tables, op \in Operations :
        Policy(table, op, user) <=> MailAccess(user)

\* C23: deleteReservation takes a reservation out of the in-memory list only
\* in the step that handles an error-free response of its remote delete, so
\* after the store processed the delete and the row is gone; when the
\* response carries an error the call throws and the list is as before.
C23_DeleteLocalAfterRemote ==
    [][/\ \A c \in pending :
            (Handled(c) /\ c.kind = "delete") =>
                IF c.error
                THEN /\ lastDone'.cid = c.cid /\ lastDone'.outcome = "thrown"
                     /\ reservations' = reservations
                ELSE /\ lastDone'.cid = c.cid
                     /\ lastDone'.outcome = "resolved"
                     /\ requests[c.cid] = 1
                     /\ c.id \notin Ids(db)
                     /\ c.id \notin ListIds(reservations')
       /\ \A id \in ListIds(reservations) \ ListIds(reservations') :
            \E c \in pending :
                /\ Handled(c) /\ ~c.error
                /\ \/ c.kind \in {"init", "refresh"}
                   \/ c.kind = "delete" /\ c.id = id /\ id \notin Ids(db)]_vars

\* A delete was rejected by the store: the call has thrown, and the
\* reservation is still in the table and in the list.
C23_Witness ==
    /\ lastDone.kind = "delete" /\ lastDone.outcome = "thrown"
    /\ requests[lastDone.cid] = 1
    /\ lastDone.id \in ListIds(reservations)
    /\ lastDone.id \in Ids(db)

\* C24: in a single session the in-memory list is ordered by creation time,
\* most recent first, in every reachable state, also when the responses of
\* overlapping calls return in another order than the store processed them.
C24_ListOrderedByCreation ==
    \A i \in 1..Len(reservations), j \in 1..Len(reservations) :
        i < j => reservations[i].createdAt >= reservations[j].createdAt

\* C25: emails never holds two rows with the same message_id; when the
\* handler derives a message id that a stored row has, from the same
\* Message-Id sent twice or from two messages without Message-Id of one
\* sender handled in the same millisecond, the insert is rejected, the
\* answer is 500 without success, and no email or attachment row is added.
C25_MessageIdUnique ==
    [][/\ \A a \in emails', b \in emails' :
            a.message_id = b.message_id => a = b
       /\ (/\ Handles /\ Derived(response')
           /\ \E e \in emails : e.message_id = response'.messageId)
          => /\ response'.status = 500 /\ ~response'.success
             /\ emails' = emails
             /\ email_attachments' = email_attachments]_vars

\* The second of two messages without Message-Id of sender 'a', handled in
\* the same millisecond as the first, was answered 500; one row is stored.
C25_Witness ==
    /\ response.n = 2
    /\ ~Truthy(response.header)
    /\ response.messageId = <<"a", "-", "1", "0", "0", "0">>
    /\ response.status = 500 /\ ~response.success
    /\ Cardinality(emails) = 1
    /\ \A e \in emails : e.message_id = response.messageId /\ e.id = 1

\* C26: the save of an inline edit leaves edit mode only when
\* updateReservation succeeded.  When it failed an error is shown, the
\* reservation in edit mode and the values of the form are as before, and
\* neither the table nor the in-memory list has changed; at most one
\* reservation is in edit mode.
C26_SaveLeavesEditModeOnSuccess ==
    [][/\ \A c \in pending :
            (Handled(c) /\ c.kind = "save") =>
                IF c.error
                THEN /\ alerts' = alerts + 1
                     /\ editingReservation' = editingReservation
                     /\ editFormData' = editFormData
                     /\ reservations' = reservations
                     /\ db' = db
                ELSE /\ editingReservation' = NoId
                     /\ alerts' = alerts
       /\ \A c \in pending, d \in pending' :
            (c.kind = "save" /\ d.cid = c.cid /\ c.phase = "sent" /\ d.error)
                => db' = db
       /\ Cardinality({i \in 1..Len(reservations') :
                          reservations'[i].id = editingReservation'}) <= 1]_vars

\* A save with a changed price was rejected: one alert, the row is still
\* being edited with the typed price, and table and list are as loaded.
C26_Witness ==
    /\ lastDone.kind = "save" /\ lastDone.outcome = "thrown"
    /\ alerts = 1
    /\ editingReservation = lastDone.id
    /\ editFormData.totalPrice = <<"9", "9", ".", "5">>
    /\ db = {UnpaidRow}
    /\ reservations = <<UnpaidRow>>

\* C27: in a single session with no other writer and no other request
\* outstanding, after updateReservation(id, updates) has succeeded the
\* in-memory record and the row of the table agree on every field updates
\* names, also for the save of an inline edit that cleared the artist.
C27_UpdatedFieldsAgree ==
    [][\A c \in pending :
          (/\ Handled(c) /\ c.kind \in {"update", "save"} /\ ~c.error
           /\ pending = {c}) =>
              \A i \in 1..Len(reservations') :
                  reservations'[i].id = c.id =>
                      \E row \in db' :
                          /\ row.id = c.id
                          /\ \A f \in DOMAIN c.arg :
                                 reservations'[i][f] = row[f]]_vars

\* The updates of a payment button clicked on the in-memory record r
DepositUpdates(u, r) ==
    /\ DOMAIN u = {"depositPaidStatus"}
    /\ u.depositPaidStatus = ~r.depositPaidStatus

RestUpdates(u, r) ==
    /\ DOMAIN u = {"restPaidStatus", "isPaid"}
    /\ u.restPaidStatus = ~r.restPaidStatus
    /\ u.isPaid = IF u.restPaidStatus THEN TRUE ELSE r.isPaid

RestImpliesPaid(r) == r.restPaidStatus => r.isPaid

\* C28: the deposit button writes only depositPaidStatus, negated; the rest
\* button negates restPaidStatus and sets isPaid when the rest becomes
\* paid, and leaves isPaid as it is when the rest becomes unpaid.  From a
\* reservation with all three flags false, every sequence of toggles keeps
\* restPaidStatus => isPaid in the table and in the list, and isPaid never
\* returns to false.
C28_PaymentFlags ==
    [][/\ \A c \in pending' \ pending :
            (c.kind = "update" /\ c.phase = "sent") =>
                \E i \in 1..Len(reservations) :
                    /\ reservations[i].id = c.id
                    /\ \/ DepositUpdates(c.arg, reservations[i])
                       \/ RestUpdates(c.arg, reservations[i])
       /\ \A r \in db' : RestImpliesPaid(r)
       /\ \A i \in 1..Len(reservations') : RestImpliesPaid(reservations'[i])
       /\ \A r \in db, q \in db' : (r.id = q.id /\ r.isPaid) => q.isPaid
       /\ \A i \in 1..Len(reservations), j \in 1..Len(reservations') :
            (reservations[i].id = reservations'[j].id /\ reservations[i].isPaid)
                => reservations'[j].isPaid
       /\ \A c \in pending, d \in pending' :
            (/\ c.kind = "update" /\ d.cid = c.cid
             /\ c.phase = "sent" /\ d.phase = "answered" /\ ~d.error
             /\ DOMAIN c.arg = {"depositPaidStatus"}) =>
                \A r \in db, q \in db' :
                    r.id = q.id =>
                        /\ q.restPaidStatus = r.restPaidStatus
                        /\ q.isPaid = r.isPaid]_vars

\* The rest was marked paid and then unpaid again, the deposit was never
\* touched: isPaid is still true, in the table and in the list.
C28_Witness ==
    /\ pending = {}
    /\ lastDone.kind = "update" /\ lastDone.outcome = "resolved"
    /\ Len(writes) = 2
    /\ \A i \in 1..Len(writes) : "restPaidStatus" \in DOMAIN writes[i].arg
    /\ \A r \in db :
          ~r.restPaidStatus /\ r.isPaid /\ ~r.depositPaidStatus
    /\ \A i \in 1..Len(reservations) :
          ~reservations[i].restPaidStatus /\ reservations[i].isPaid

\* C29: in a single session with no other writer, once every outstanding
\* updateReservation request on a reservation has completed, the in-memory
\* record equals the row of the table, in whatever order the requests
\* reached the store and their responses returned, two overlapping updates
\* of one field with different values included.
C29_SettledRecordEqualsRow ==
    \A i \in 1..Len(reservations) :
        (~\E c \in pending : c.id = reservations[i].id)
            => \E row \in db :
                  /\ row.id = reservations[i].id
                  /\ \A f \in DOMAIN row : reservations[i][f] = row[f]

\* C30: for a user with the 'emails' permission or the admin role, once the
\* emails table has stopped changing and every outstanding unread-count
\* fetch has completed, the badge of Navigation is the number of emails that
\* are neither read nor archived, in whatever order the responses of the
\* overlapping fetches arrive; for a user without the permission nothing is
\* fetched or subscribed and the count stays 0.
C30_BadgeShowsUnread ==
    IF hasPermission(user, "emails")
    THEN (events = 0 /\ ~\E c \in pending : c.kind = "unread")
             => unreadCount = Cardinality(Unread(emails))
    ELSE unreadCount = 0 /\ events = 0 /\ pending = {}

====
